---- MODULE Spec2Model ----
(***************************************************************************)
(* ncgopher: the UI controller (src/src/ncgopher.rs).                      *)
(*                                                                         *)
(* NcGopher::step is the message pump: it drains the inbound channel       *)
(* (ui_rx) and then runs one step of the cursive render loop, in which the *)
(* callbacks of keys, menu items, dialog buttons and listing entries fire. *)
(* Handlers and callbacks send requests to the backend on controller_tx.   *)
(*                                                                         *)
(* Strings are sequences of chunks (a chunk is a word or a punctuation     *)
(* mark), so that starts_with, insert_str, format! and Url::parse are      *)
(* computed on the text and are not the identity.                          *)
(***************************************************************************)
EXTENDS Integers, Sequences, FiniteSets, TLC

VARIABLES
    running,         \* Cursive::is_running()
    ui_rx,           \* inbound channel: UiMessages sent and not yet received
    controller_rx,   \* outbound channel: ControllerMessages sent on controller_tx
    controller_alive,\* the backend still holds the receiver of controller_tx
    panicked,        \* an unwrap() failed: the process is gone
    message,         \* NcGopher.message, the status bar text
    history_menu,    \* children of the menubar subtree "History"
    bookmarks_menu,  \* children of the menubar subtree "Bookmarks"
    layers,          \* dialog layers above the main layer, bottom first
    active_view,     \* Layout's current view: "content" or "text"
    content_items,   \* items of the SelectView<GopherMapEntry> named "content"
    content_title,   \* Layout's title of the view "content"
    text_items,      \* items of the SelectView named "text"
    pc,              \* position of the pump inside step(): "idle" or "drain"
    ret,             \* what the last finished call of step() returned
    renders,         \* app.step() calls made by the current call of step()
    drained,         \* the UiMessages dispatched by the current call of step()
    arrived,         \* every UiMessage sent on ui_tx so far, in send order
    applied,         \* every UiMessage the pump has dispatched so far, in order
    last_msg,        \* the UiMessage dispatched last
    last_event,      \* the input event the last app.step() handled
    config_fs,       \* what Settings::new finds: the config dir and the config file
    settings,        \* the outcome of Settings::new, once it has run
    warnings         \* what warn! has logged

chan_vars == <<ui_rx, controller_rx, controller_alive, panicked>>
menu_vars == <<history_menu, bookmarks_menu>>
view_vars == <<layers, active_view, content_items, content_title, text_items>>
pump_vars == <<pc, ret, renders, drained>>
log_vars  == <<arrived, applied>>
ui_vars == <<running, chan_vars, message, menu_vars, view_vars, pump_vars, log_vars,
             last_msg, last_event>>
cfg_vars == <<config_fs, settings, warnings>>
vars == <<ui_vars, cfg_vars>>

---------------------------------------------------------------------------
(* Bounds of the model *)

\* messages sent on ui_tx in one behaviour of the specifications of the pump
MaxArrivals == 5

\* the requests the callbacks of app.step() put on controller_tx, and the
\* layers the menu opens by itself, are explored up to these numbers
MaxRequests == 3
MaxLayers == 2

\* the bookmarks the backend loads at startup, and the messages that reach
\* the pump once the menus are loaded
MaxBookmarks == 12
MaxMenuMsgs == 3

---------------------------------------------------------------------------
(* Strings *)

StartsWith(s, p) == Len(s) >= Len(p) /\ SubSeq(s, 1, Len(p)) = p

\* index of the first chunk of s equal to c, Len(s) + 1 if there is none
IndexOf(s, c) ==
    IF \E i \in 1..Len(s) : s[i] = c
    THEN CHOOSE i \in 1..Len(s) : s[i] = c /\ \A j \in 1..(i - 1) : s[j] # c
    ELSE Len(s) + 1

DropFirst(s, n) == SubSeq(s, n + 1, Len(s))

\* str::ends_with
EndsWith(s, p) ==
    Len(s) >= Len(p) /\ SubSeq(s, Len(s) - Len(p) + 1, Len(s)) = p

---------------------------------------------------------------------------
(* url::Url.  A Url is [scheme, host, port, path]: host and port are        *)
(* strings, path is the sequence of its segments (each a string).           *)

GopherPrefix == <<"gopher", ":", "/", "/">>

NoUrl == [scheme |-> "", host |-> <<>>, port |-> <<>>, path |-> <<>>]

RECURSIVE SplitSlash(_)
SplitSlash(s) ==
    LET i == IndexOf(s, "/")
    IN IF i > Len(s) THEN <<s>>
       ELSE <<SubSeq(s, 1, i - 1)>> \o SplitSlash(DropFirst(s, i))

\* the path percent-encodes a space
EncodeSegment(seg) == [i \in 1..Len(seg) |-> IF seg[i] = " " THEN "%20" ELSE seg[i]]

SchemeWords == {"gopher", "http"}

HasScheme(s) ==
    Len(s) >= 4 /\ s[1] \in SchemeWords /\ SubSeq(s, 2, 4) = <<":", "/", "/">>

\* Url::parse of a string "scheme://host[:port][/path]", for a build of the url
\* crate in which gopher is (gopher_special, default port 70) or is not one of
\* the special schemes; http is special, with default port 80.
UrlParseAs(s, gopher_special) ==
    LET scheme   == s[1]
        special  == scheme = "http" \/ gopher_special
        default  == IF scheme = "http" THEN <<"80">> ELSE <<"70">>
        rest     == DropFirst(s, 4)
        slash    == IndexOf(rest, "/")
        auth     == SubSeq(rest, 1, slash - 1)
        pathpart == DropFirst(rest, slash - 1)
        colon    == IndexOf(auth, ":")
        host     == SubSeq(auth, 1, colon - 1)
        hasport  == colon <= Len(auth)
        port     == DropFirst(auth, colon)
        segs     == IF pathpart = <<>>
                    THEN (IF special THEN << <<>> >> ELSE <<>>)
                    ELSE SplitSlash(DropFirst(pathpart, 1))
        Err(e)   == [ok |-> FALSE, url |-> NoUrl, err |-> <<e>>]
    IN IF ~HasScheme(s) THEN Err("relative URL without a base")
       ELSE IF \E i \in 1..Len(host) : host[i] = " " THEN Err("invalid domain character")
       ELSE IF host = <<>> /\ special THEN Err("empty host")
       ELSE IF hasport /\ port \notin {<<>>, <<"70">>, <<"80">>, <<"7070">>}
            THEN Err("invalid port number")
       ELSE [ok |-> TRUE,
             url |-> [scheme |-> scheme,
                      host |-> host,
                      port |-> IF special /\ port = default THEN <<>> ELSE port,
                      path |-> [i \in 1..Len(segs) |-> EncodeSegment(segs[i])]],
             err |-> <<>>]

\* what Url::parse can return for s (the build decides whether gopher is special)
UrlParse(s) == {UrlParseAs(s, special) : special \in BOOLEAN}

RECURSIVE JoinPath(_)
JoinPath(segs) ==
    IF segs = <<>> THEN <<>> ELSE <<"/">> \o Head(segs) \o JoinPath(Tail(segs))

\* Url::as_str, Url::to_string
UrlToString(u) ==
    <<u.scheme, ":", "/", "/">> \o u.host
        \o (IF u.port = <<>> THEN <<>> ELSE <<":">> \o u.port)
        \o JoinPath(u.path)

MkUrl(host, segs) == [scheme |-> "gopher", host |-> <<host>>, port |-> <<"70">>, path |-> segs]

\* gopher://h1:70/1/a and gopher://h2:70/0/b
UrlA == MkUrl("h1", << <<"1">>, <<"a">> >>)
UrlB == MkUrl("h2", << <<"0">>, <<"b">> >>)

---------------------------------------------------------------------------
(* Messages *)

\* enum UiMessage
UiMsg(t, u, s, c, ct) == [type |-> t, url |-> u, text |-> s, content |-> c, ctype |-> ct]

AddToBookmarkMenu(b)      == UiMsg("AddToBookmarkMenu", b.url, b.title, <<>>, "None")
AddToHistoryMenu(h)       == UiMsg("AddToHistoryMenu", h.url, h.title, <<>>, "None")
ClearHistoryMenu          == UiMsg("ClearHistoryMenu", NoUrl, <<>>, <<>>, "None")
OpenQueryDialog(u)        == UiMsg("OpenQueryDialog", u, <<>>, <<>>, "None")
OpenQueryUrl(u, q)        == UiMsg("OpenQueryUrl", u, q, <<>>, "None")
OpenUrl(u, ct)            == UiMsg("OpenUrl", u, <<>>, <<>>, ct)
OpenURL(s)                == UiMsg("OpenURL", NoUrl, s, <<>>, "None")
ShowContent(u, c, ct)     == UiMsg("ShowContent", u, <<>>, c, ct)
ShowMessage(s)            == UiMsg("ShowMessage", NoUrl, s, <<>>, "None")
ShowURLDialog             == UiMsg("ShowURLDialog", NoUrl, <<>>, <<>>, "None")
ShowSaveAsDialog(u)       == UiMsg("ShowSaveAsDialog", u, <<>>, <<>>, "None")
ShowAddBookmarkDialog(u)  == UiMsg("ShowAddBookmarkDialog", u, <<>>, <<>>, "None")
ShowSearchDialog(u)       == UiMsg("ShowSearchDialog", u, <<>>, <<>>, "None")
BinaryWritten(f, bytes)   == UiMsg("BinaryWritten", NoUrl, f, bytes, "None")
PageSaved(u, ct, f)       == UiMsg("PageSaved", u, f, <<>>, ct)

\* no message
NoMsg == UiMsg("None", NoUrl, <<>>, <<>>, "None")

\* enum ControllerMessage (crate::controller), as this file constructs it
CtlMsg(t, u, ct, s) == [type |-> t, url |-> u, ctype |-> ct, text |-> s]

FetchUrl(u, ct, q)  == CtlMsg("FetchUrl", u, ct, q)
NavigateBack             == CtlMsg("NavigateBack", NoUrl, "None", <<>>)
RequestSaveAsDialog      == CtlMsg("RequestSaveAsDialog", NoUrl, "None", <<>>)
RequestAddBookmarkDialog == CtlMsg("RequestAddBookmarkDialog", NoUrl, "None", <<>>)
CtlClearHistory          == CtlMsg("ClearHistory", NoUrl, "None", <<>>)
SavePageAs(name)         == CtlMsg("SavePageAs", NoUrl, "None", name)
AddBookmark(u, title, tags) ==
    [type |-> "AddBookmark", url |-> u, ctype |-> "None", text |-> title, tags |-> tags]

\* HistoryEntry, Bookmark: the fields this file reads
Entry(t, u) == [title |-> t, url |-> u]

---------------------------------------------------------------------------
(* The menubar: create_menubar, add_to_history_menu, clear_history_menu    *)

MenuLeaf(label, cb, u) == [kind |-> "leaf", label |-> label, cb |-> cb, url |-> u]
MenuDelimiter          == [kind |-> "delimiter", label |-> <<>>, cb |-> "none", url |-> NoUrl]

\* the subtree "History" as create_menubar builds it
HistoryStatic ==
    << MenuLeaf(<<"Show all history...">>, "info", NoUrl),
       MenuLeaf(<<"Clear history">>, "confirm_clear_history", NoUrl),
       MenuDelimiter >>

\* the subtree "Bookmarks" as create_menubar builds it
BookmarksStatic ==
    << MenuLeaf(<<"Edit...">>, "info", NoUrl),
       MenuLeaf(<<"Add bookmark">>, "request_add_bookmark", NoUrl),
       MenuDelimiter >>

\* MenuTree::insert_leaf(i, ...), i counted from 0
InsertLeaf(tree, i, leaf) == SubSeq(tree, 1, i) \o <<leaf>> \o SubSeq(tree, i + 1, Len(tree))

\* MenuTree::remove(i), i counted from 0
RemoveAt(tree, i) == SubSeq(tree, 1, i) \o SubSeq(tree, i + 2, Len(tree))

HISTORY_LEN == 10

\* the tree after add_to_history_menu(h)
HistoryAfterAdd(tree, h) ==
    LET t == IF Len(tree) > HISTORY_LEN + 3 THEN RemoveAt(tree, Len(tree) - 1) ELSE tree
    IN InsertLeaf(t, 3, MenuLeaf(h.title, "open_url", h.url))

\* clear_history_menu with the loop bound off by one
RECURSIVE HistoryAfterClear_KeepsOne(_)
HistoryAfterClear_KeepsOne(tree) ==
    IF Len(tree) > 4 THEN HistoryAfterClear_KeepsOne(RemoveAt(tree, Len(tree) - 1)) ELSE tree

\* the tree after clear_history_menu()
RECURSIVE HistoryAfterClear(_)
HistoryAfterClear(tree) ==
    IF Len(tree) > 3 THEN HistoryAfterClear(RemoveAt(tree, Len(tree) - 1)) ELSE tree

\* dynamic items of a menu: those after the three static ones
Dynamic(tree) == SubSeq(tree, 4, Len(tree))

---------------------------------------------------------------------------
(* Listings: crate::gophermap (GopherMapEntry, ItemType) and the items of  *)
(* the view "content"                                                      *)

RECURSIVE SplitOn(_, _)
SplitOn(s, sep) ==
    LET i == IndexOf(s, sep)
    IN IF i > Len(s) THEN <<s>>
       ELSE <<SubSeq(s, 1, i - 1)>> \o SplitOn(DropFirst(s, i), sep)

\* str::lines: the lines of a text, a final line break ending the last line
Lines(s) ==
    LET parts == SplitOn(s, "\n")
    IN IF parts[Len(parts)] = <<>> THEN SubSeq(parts, 1, Len(parts) - 1) ELSE parts

\* ItemType of a type code
ItemTypeDecode(c) ==
    CASE c = "0" -> "File"
      [] c = "1" -> "Dir"
      [] c = "4" -> "BinHex"
      [] c = "5" -> "Dos"
      [] c = "6" -> "Uuencoded"
      [] c = "7" -> "IndexServer"
      [] c = "8" -> "Telnet"
      [] c = "9" -> "Binary"
      [] c = "g" -> "Gif"
      [] c = "h" -> "Html"
      [] c = "I" -> "Image"
      [] OTHER   -> "Inline"

GopherMapEntry(t, label, u) == [item_type |-> t, label |-> label, url |-> u]

\* GopherMapEntry::parse of one line: <code><label> TAB <selector> TAB <host> TAB <port>
GopherMapEntryParse(line) ==
    LET f == SplitOn(line, "\t")
    IN IF Len(f) < 4 \/ f[1] = <<>>
       THEN GopherMapEntry("Inline", line, NoUrl)
       ELSE GopherMapEntry(ItemTypeDecode(f[1][1]), Tail(f[1]),
                [scheme |-> "gopher", host |-> f[3], port |-> f[4],
                 path |-> << <<f[1][1]>> >>
                          \o SplitSlash(IF StartsWith(f[2], <<"/">>) THEN Tail(f[2]) ELSE f[2])])

\* the bracketed tag show_gophermap puts before the label
ItemTag(t) ==
    CASE t = "Dir"         -> "[MAP]  "
      [] t = "File"        -> "[FILE] "
      [] t = "Binary"      -> "[BIN]  "
      [] t = "Gif"         -> "[GIF]  "
      [] t = "Html"        -> "[WWW]  "
      [] t = "IndexServer" -> "[QRY]  "
      [] t = "Telnet"      -> "[TEL]  "
      [] t = "Image"       -> "[IMG]  "
      [] OTHER             -> "       "

\* one item of the view "content": the label shown and the entry stored with it
ContentItem(e) == [label |-> <<ItemTag(e.item_type)>> \o e.label, entry |-> e]

\* entries built from the lines before the first "." only
GophermapOf_StopsAtTerminator(content) ==
    LET ls  == Lines(content)
        end == IndexOf(ls, <<".">>)
    IN [i \in 1..(end - 1) |-> GopherMapEntryParse(ls[i])]

\* the entries show_gophermap builds from a payload: every line but "."
GophermapOf(content) ==
    LET ls   == Lines(content)
        keep == SelectSeq(ls, LAMBDA l : l # <<".">>)
    IN [i \in 1..Len(keep) |-> GopherMapEntryParse(keep[i])]

\* the title show_gophermap captures: the first line if it starts with '/'
TitleOf(content) ==
    LET ls == Lines(content)
    IN IF ls # <<>> /\ StartsWith(ls[1], <<"/">>) THEN ls[1] ELSE <<>>

\* what the entry's on_submit closure sends on ui_tx: a set of at most one message
OnSubmit(entry) ==
    CASE entry.item_type = "Dir"  -> {OpenUrl(entry.url, "Gophermap")}
      [] entry.item_type = "File" -> {OpenUrl(entry.url, "Text")}
      [] entry.item_type \in {"Binary", "BinHex", "Dos", "Image"}
                                  -> {OpenUrl(entry.url, "Binary")}
      [] entry.item_type = "IndexServer" -> {OpenQueryDialog(entry.url)}
      [] OTHER -> {}

---------------------------------------------------------------------------
(* Dialog layers *)

Layer(kind, u, prefill) == [kind |-> kind, url |-> u, prefill |-> prefill]

\* Cursive::pop_layer: removes the top layer, if any dialog is open
PopLayer(ls) == IF ls = <<>> THEN ls ELSE SubSeq(ls, 1, Len(ls) - 1)

TopKind(ls) == IF ls = <<>> THEN "main" ELSE ls[Len(ls)].kind

\* Dialog::info(text)
InfoLayer(text) == Layer("info", NoUrl, text)

\* the dialogs whose EditView is named "name"
NameKinds == {"url", "save_as"}

\* app.call_on_name("name", ..) acts on the first view of that name the search
\* of the layers finds: the lowest such layer or the highest, with the order
\* in which the StackView of the build visits its layers
NameTargets(ls) ==
    LET named == {i \in 1..Len(ls) : ls[i].kind \in NameKinds}
    IN {i \in named : (\A j \in named : i <= j) \/ (\A j \in named : i >= j)}

---------------------------------------------------------------------------
(* Channels *)

\* controller_tx.send(m).unwrap(): the send fails, and unwrap panics, once the
\* backend has dropped the receiver
SendOrPanic(m) ==
    IF controller_alive
    THEN controller_rx' = Append(controller_rx, m) /\ UNCHANGED panicked
    ELSE panicked' = TRUE /\ UNCHANGED controller_rx

\* ui_tx.send(m).unwrap(): NcGopher owns the receiver, the send cannot fail
UiSend(m) ==
    /\ Len(arrived) < MaxArrivals
    /\ ui_rx' = Append(ui_rx, m)
    /\ arrived' = Append(arrived, m)

\* a receive that takes the newest message
Recv_Newest(q) == [msg |-> q[Len(q)], rest |-> SubSeq(q, 1, Len(q) - 1)]

\* self.ui_rx.try_iter().next(): the message received and what stays queued
Recv(q) == [msg |-> Head(q), rest |-> Tail(q)]

---------------------------------------------------------------------------
(* Handlers of the pump.  Each states the new value of every variable a    *)
(* handler can touch: controller_rx, panicked, message, the menus and the  *)
(* views.                                                                  *)

\* an add_to_bookmark_menu that puts the new item first in the menu
add_to_bookmark_menu_AtTop(b) ==
    /\ bookmarks_menu' = InsertLeaf(bookmarks_menu, 0, MenuLeaf(b.title, "open_url", b.url))
    /\ UNCHANGED <<controller_rx, panicked, message, history_menu, view_vars>>

add_to_bookmark_menu(b) ==
    /\ bookmarks_menu' = InsertLeaf(bookmarks_menu, 3, MenuLeaf(b.title, "open_url", b.url))
    /\ UNCHANGED <<controller_rx, panicked, message, history_menu, view_vars>>

add_to_history_menu(h) ==
    /\ history_menu' = HistoryAfterAdd(history_menu, h)
    /\ UNCHANGED <<controller_rx, panicked, message, bookmarks_menu, view_vars>>

clear_history_menu ==
    /\ history_menu' = HistoryAfterClear(history_menu)
    /\ UNCHANGED <<controller_rx, panicked, message, bookmarks_menu, view_vars>>

\* a status bar that keeps its first text
set_message_KeepsFirst(msg) ==
    /\ message' = IF message = <<>> THEN msg ELSE message
    /\ UNCHANGED <<controller_rx, panicked, menu_vars, view_vars>>

set_message(msg) ==
    /\ message' = msg
    /\ UNCHANGED <<controller_rx, panicked, menu_vars, view_vars>>

open_gopher_address(u, ct) ==
    /\ message' = <<"Loading ...">>
    /\ active_view' = "content"
    /\ SendOrPanic(FetchUrl(u, ct, <<>>))
    /\ UNCHANGED <<menu_vars, layers, content_items, content_title, text_items>>

\* a normalization that prefixes whatever it is given
NormalizeUrlString_Always(s) == GopherPrefix \o s

\* the string open_gopher_url_string hands to Url::parse
NormalizeUrlString(s) == IF ~StartsWith(s, GopherPrefix) THEN GopherPrefix \o s ELSE s

\* an open_gopher_url_string that takes the content type from the type code
open_gopher_url_string_ByTypeCode(s) ==
    \E res \in UrlParse(NormalizeUrlString(s)) :
        IF res.ok
        THEN open_gopher_address(res.url,
                 IF res.url.path # <<>> /\ res.url.path[1] = <<"0">> THEN "Text" ELSE "Gophermap")
        ELSE set_message(<<"Invalid URL: ">> \o res.err)

open_gopher_url_string(s) ==
    \E res \in UrlParse(NormalizeUrlString(s)) :
        IF res.ok
        THEN open_gopher_address(res.url, "Gophermap")
        ELSE set_message(<<"Invalid URL: ">> \o res.err)

\* get_filename_from_url: path_segments().unwrap() panics on a Url without a
\* path; the last segment otherwise
get_filename_from_url(u) ==
    IF u.path = <<>>
    THEN [panic |-> TRUE, name |-> <<>>]
    ELSE [panic |-> FALSE, name |-> u.path[Len(u.path)]]

\* ControllerMessage::FetchBinaryUrl(url, path)
FetchBinaryUrl(u, path) == CtlMsg("FetchBinaryUrl", u, "Binary", path)

fetch_binary_file(u, local_path) ==
    LET f == get_filename_from_url(u)
    IN /\ IF f.panic
          THEN panicked' = TRUE /\ UNCHANGED controller_rx
          ELSE SendOrPanic(FetchBinaryUrl(u, local_path \o <<"/">> \o f.name))
       /\ UNCHANGED <<message, menu_vars, view_vars>>

\* what dirs::home_dir() and the conversion of the path to a String can give:
\* no home directory, a path that is not UTF-8 (the unwrap panics), a path
HomeDirs == {"none", "not_utf8", "home"}

\* UiMessage::OpenUrl(url, ContentType::Binary)
open_binary(u) ==
    \E dir \in HomeDirs :
        CASE dir = "none"     -> set_message(<<"Could not find download dir">>)
          [] dir = "not_utf8" -> /\ panicked' = TRUE
                                 /\ UNCHANGED <<controller_rx, message, menu_vars, view_vars>>
          [] dir = "home"     -> fetch_binary_file(u, <<"/home/user">>)

open_query_dialog(u) ==
    /\ layers' = Append(layers, Layer("query", u, <<>>))
    /\ UNCHANGED <<controller_rx, panicked, message, menu_vars,
                   active_view, content_items, content_title, text_items>>

\* a query that sends its request twice
query_Twice(u, q) ==
    /\ message' = <<"Loading ...">>
    /\ IF controller_alive
       THEN controller_rx' = controller_rx \o <<FetchUrl(u, "Gophermap", q), FetchUrl(u, "Gophermap", q)>>
            /\ UNCHANGED panicked
       ELSE panicked' = TRUE /\ UNCHANGED controller_rx
    /\ UNCHANGED <<menu_vars, view_vars>>

query(u, q) ==
    /\ message' = <<"Loading ...">>
    /\ SendOrPanic(FetchUrl(u, "Gophermap", q))
    /\ UNCHANGED <<menu_vars, view_vars>>

\* a pump that shows a result only if its address was requested last
show_gophermap_IfLatest(u, content) ==
    LET gophermap == GophermapOf(content)
        latest    == controller_rx = <<>> \/ controller_rx[Len(controller_rx)].url = u
    IN /\ content_items' = IF latest
                           THEN [i \in 1..Len(gophermap) |-> ContentItem(gophermap[i])]
                           ELSE content_items
       /\ content_title' = content_title
       /\ message' = IF latest THEN UrlToString(u) ELSE message
       /\ UNCHANGED <<controller_rx, panicked, menu_vars, layers, active_view, text_items>>

\* a show_gophermap that does not make an entry of the line it takes as title
show_gophermap_DropsTitle(u, content) ==
    LET all       == GophermapOf(content)
        title     == TitleOf(content)
        gophermap == IF title # <<>> THEN Tail(all) ELSE all
    IN /\ content_items' = [i \in 1..Len(gophermap) |-> ContentItem(gophermap[i])]
       /\ content_title' = IF title # <<>> THEN title ELSE content_title
       /\ message' = UrlToString(u)
       /\ UNCHANGED <<controller_rx, panicked, menu_vars, layers, active_view, text_items>>

\* a show_gophermap without view.clear()
show_gophermap_Appends(u, content) ==
    LET gophermap == GophermapOf(content)
        title     == TitleOf(content)
    IN /\ content_items' = content_items
                             \o [i \in 1..Len(gophermap) |-> ContentItem(gophermap[i])]
       /\ content_title' = IF title # <<>> THEN title ELSE content_title
       /\ message' = UrlToString(u)
       /\ UNCHANGED <<controller_rx, panicked, menu_vars, layers, active_view, text_items>>

\* a show_gophermap that puts the listing pane on screen
show_gophermap_Activates(u, content) ==
    LET gophermap == GophermapOf(content)
        title     == TitleOf(content)
    IN /\ content_items' = [i \in 1..Len(gophermap) |-> ContentItem(gophermap[i])]
       /\ content_title' = IF title # <<>> THEN title ELSE content_title
       /\ active_view' = "content"
       /\ message' = UrlToString(u)
       /\ UNCHANGED <<controller_rx, panicked, menu_vars, layers, text_items>>

\* show_gophermap followed by set_message(url.as_str())
show_gophermap(u, content) ==
    LET gophermap == GophermapOf(content)
        title     == TitleOf(content)
    IN /\ content_items' = [i \in 1..Len(gophermap) |-> ContentItem(gophermap[i])]
       /\ content_title' = IF title # <<>> THEN title ELSE content_title
       /\ message' = UrlToString(u)
       /\ UNCHANGED <<controller_rx, panicked, menu_vars, layers, active_view, text_items>>

\* a show_text_file that empties the listing
show_text_file_ClearsListing(u, content) ==
    LET ls == Lines(content)
    IN /\ active_view' = "text"
       /\ text_items' = [i \in 1..Len(ls) |-> <<"  ">> \o ls[i]]
       /\ content_items' = <<>>
       /\ message' = UrlToString(u)
       /\ UNCHANGED <<controller_rx, panicked, menu_vars, layers, content_title>>

\* show_text_file followed by set_message(url.as_str())
show_text_file(u, content) ==
    LET ls == Lines(content)
    IN /\ active_view' = "text"
       /\ text_items' = [i \in 1..Len(ls) |-> <<"  ">> \o ls[i]]
       /\ message' = UrlToString(u)
       /\ UNCHANGED <<controller_rx, panicked, menu_vars, layers, content_items, content_title>>

show_url_dialog ==
    /\ layers' = Append(layers, Layer("url", NoUrl, <<>>))
    /\ UNCHANGED <<controller_rx, panicked, message, menu_vars,
                   active_view, content_items, content_title, text_items>>

\* the name show_save_as_dialog puts in the field, from the last path segment
SaveAsName(seg) ==
    LET base == IF seg = <<>> THEN <<"download">> ELSE seg
    IN IF ~EndsWith(base, <<".txt">>) THEN base \o <<".txt">> ELSE base

show_save_as_dialog(u) ==
    LET f == get_filename_from_url(u)
    IN /\ IF f.panic
          THEN panicked' = TRUE /\ UNCHANGED layers
          ELSE /\ UNCHANGED panicked
               /\ LET opened == Append(layers, Layer("save_as", u, <<>>))
                  IN \E k \in NameTargets(opened) :
                        layers' = [opened EXCEPT ![k].prefill = SaveAsName(f.name)]
       /\ UNCHANGED <<controller_rx, message, menu_vars,
                      active_view, content_items, content_title, text_items>>

show_add_bookmark_dialog(u) ==
    /\ layers' = Append(layers, Layer("add_bookmark", u, <<>>))
    /\ UNCHANGED <<controller_rx, panicked, message, menu_vars,
                   active_view, content_items, content_title, text_items>>

show_search_dialog(u) ==
    /\ layers' = Append(layers, Layer("search", u, <<>>))
    /\ UNCHANGED <<controller_rx, panicked, message, menu_vars,
                   active_view, content_items, content_title, text_items>>

binary_written(filename, bytes) ==
    set_message(<<"File downloaded: ">> \o filename \o <<" (">> \o bytes \o <<" bytes)">>)

\* the match of step() on the message received
Handle(m) ==
    CASE m.type = "AddToBookmarkMenu" -> add_to_bookmark_menu(Entry(m.text, m.url))
      [] m.type = "AddToHistoryMenu"  -> add_to_history_menu(Entry(m.text, m.url))
      [] m.type = "ClearHistoryMenu"  -> clear_history_menu
      [] m.type = "ShowContent" /\ m.ctype = "Gophermap" -> show_gophermap(m.url, m.content)
      [] m.type = "ShowContent" /\ m.ctype = "Text"      -> show_text_file(m.url, m.content)
      [] m.type = "ShowContent" /\ m.ctype = "Binary"    -> set_message(UrlToString(m.url))
      [] m.type = "OpenQueryDialog"   -> open_query_dialog(m.url)
      [] m.type = "OpenQueryUrl"      -> query(m.url, m.text)
      [] m.type = "OpenUrl" /\ m.ctype = "Binary" -> open_binary(m.url)
      [] m.type = "OpenUrl" /\ m.ctype # "Binary" -> open_gopher_address(m.url, m.ctype)
      [] m.type = "OpenURL"           -> open_gopher_url_string(m.text)
      [] m.type = "ShowMessage"       -> set_message(m.text)
      [] m.type = "ShowURLDialog"     -> show_url_dialog
      [] m.type = "ShowSaveAsDialog"  -> show_save_as_dialog(m.url)
      [] m.type = "ShowAddBookmarkDialog" -> show_add_bookmark_dialog(m.url)
      [] m.type = "ShowSearchDialog"  -> show_search_dialog(m.url)
      [] m.type = "BinaryWritten"     -> binary_written(m.text, m.content)
      [] m.type = "PageSaved"         ->
            set_message(<<"Page saved as '">> \o m.text \o <<"'.">>)

---------------------------------------------------------------------------
(* NcGopher::step *)

\* if !app.is_running() { return false; }
Step_NotRunning ==
    /\ pc = "idle" /\ ~panicked /\ ~running
    /\ ret' = "false"
    /\ renders' = 0
    /\ drained' = <<>>
    /\ UNCHANGED <<running, chan_vars, message, menu_vars, view_vars, pc, log_vars, last_msg, last_event>>
    /\ UNCHANGED cfg_vars

\* step without its check of is_running
Step_Enter_Unchecked ==
    /\ pc = "idle" /\ ~panicked
    /\ pc' = "drain"
    /\ ret' = "none"
    /\ renders' = 0
    /\ drained' = <<>>
    /\ UNCHANGED <<running, chan_vars, message, menu_vars, view_vars, log_vars, last_msg, last_event>>
    /\ UNCHANGED cfg_vars

Step_Enter ==
    /\ pc = "idle" /\ ~panicked /\ running
    /\ pc' = "drain"
    /\ ret' = "none"
    /\ renders' = 0
    /\ drained' = <<>>
    /\ UNCHANGED <<running, chan_vars, message, menu_vars, view_vars, log_vars, last_msg, last_event>>
    /\ UNCHANGED cfg_vars

\* a dispatch whose handler of a status text sends one more on ui_tx
Step_Dispatch_Echo ==
    /\ pc = "drain" /\ ~panicked /\ ui_rx # <<>>
    /\ LET r    == Recv(ui_rx)
           echo == IF r.msg.type = "ShowMessage" /\ Len(arrived) < MaxArrivals
                   THEN <<ShowMessage(<<"echo">>)>> ELSE <<>>
       IN /\ ui_rx' = r.rest \o echo
          /\ arrived' = arrived \o echo
          /\ applied' = Append(applied, r.msg)
          /\ drained' = Append(drained, r.msg)
          /\ last_msg' = r.msg
          /\ Handle(r.msg)
    /\ UNCHANGED <<running, controller_alive, pc, ret, renders, last_event>>
    /\ UNCHANGED cfg_vars

\* one turn of the while loop: a message is received and matched
Step_Dispatch ==
    /\ pc = "drain" /\ ~panicked /\ ui_rx # <<>>
    /\ LET r == Recv(ui_rx)
       IN /\ ui_rx' = r.rest
          /\ applied' = Append(applied, r.msg)
          /\ drained' = Append(drained, r.msg)
          /\ last_msg' = r.msg
          /\ Handle(r.msg)
    /\ UNCHANGED <<running, controller_alive, pc, ret, renders, arrived, last_event>>
    /\ UNCHANGED cfg_vars

\* the loop has found the channel empty: app.step() runs, then step returns true
RenderDone ==
    /\ pc = "drain" /\ ~panicked /\ ui_rx = <<>>
    /\ pc' = "idle"
    /\ ret' = "true"
    /\ renders' = renders + 1
    /\ UNCHANGED drained
    /\ UNCHANGED cfg_vars

\* an input event: its kind, the item it is on, the text typed
Event(kind, i, text) == [kind |-> kind, index |-> i, text |-> text]

\* app.step() with no input event
Render_NoEvent ==
    /\ RenderDone
    /\ last_event' = Event("none", 0, <<>>)
    /\ UNCHANGED <<running, chan_vars, message, menu_vars, view_vars, log_vars, last_msg>>

\* 'q', or File > Quit: Cursive::quit
Render_Quit ==
    /\ RenderDone
    /\ running' = FALSE
    /\ last_event' = Event("quit", 0, <<>>)
    /\ UNCHANGED <<chan_vars, message, menu_vars, view_vars, log_vars, last_msg>>

\* 'g', or File > Open URL...
Render_OpenUrlKey ==
    /\ RenderDone
    /\ UiSend(ShowURLDialog)
    /\ last_event' = Event("open_url_key", 0, <<>>)
    /\ UNCHANGED <<running, controller_rx, controller_alive, panicked, message,
                   menu_vars, view_vars, applied, last_msg>>

\* Enter on item i of the listing: its on_submit closure
Render_SelectEntry(i) ==
    /\ RenderDone
    /\ layers = <<>> /\ active_view = "content"
    /\ i \in 1..Len(content_items)
    /\ LET ms == OnSubmit(content_items[i].entry)
       IN IF ms = {}
          THEN UNCHANGED <<ui_rx, arrived>>
          ELSE \E m \in ms : UiSend(m)
    /\ last_event' = Event("select", i, <<>>)
    /\ UNCHANGED <<running, controller_rx, controller_alive, panicked, message,
                   menu_vars, view_vars, applied, last_msg>>

\* URL dialog, Enter in the field or Ok, with `name` typed: open_url_action
Render_UrlDialogSubmit(name) ==
    /\ RenderDone
    /\ TopKind(layers) = "url"
    /\ layers' = PopLayer(layers)
    /\ UiSend(OpenURL(name))
    /\ last_event' = Event("url_submit", 0, name)
    /\ UNCHANGED <<running, controller_rx, controller_alive, panicked, message,
                   menu_vars, active_view, content_items, content_title, text_items,
                   applied, last_msg>>

\* URL dialog, Cancel
Render_UrlDialogCancel ==
    /\ RenderDone
    /\ TopKind(layers) = "url"
    /\ layers' = PopLayer(layers)
    /\ last_event' = Event("url_cancel", 0, <<>>)
    /\ UNCHANGED <<running, chan_vars, message, menu_vars,
                   active_view, content_items, content_title, text_items, log_vars, last_msg>>

\* query dialog, Ok, with `n` in the field "query"
Render_QueryDialogOk(n) ==
    /\ RenderDone
    /\ TopKind(layers) = "query"
    /\ layers' = PopLayer(layers)
    /\ UiSend(OpenQueryUrl(layers[Len(layers)].url, n))
    /\ last_event' = Event("query_ok", 0, n)
    /\ UNCHANGED <<running, controller_rx, controller_alive, panicked, message,
                   menu_vars, active_view, content_items, content_title, text_items,
                   applied, last_msg>>

\* a callback of app.step() sends m on controller_tx and unwraps the result:
\* with the receiver gone the callback panics and step does not return
RenderSend(m) ==
    IF controller_alive
    THEN /\ RenderDone
         /\ Len(controller_rx) < MaxRequests
         /\ controller_rx' = Append(controller_rx, m)
         /\ UNCHANGED panicked
    ELSE /\ pc = "drain" /\ ~panicked /\ ui_rx = <<>>
         /\ panicked' = TRUE
         /\ renders' = renders + 1
         /\ UNCHANGED <<pc, ret, drained, controller_rx>>
         /\ UNCHANGED cfg_vars

\* a send on controller_tx whose result is dropped
RenderSend_Unchecked(m) ==
    /\ RenderDone
    /\ ~controller_alive \/ Len(controller_rx) < MaxRequests
    /\ controller_rx' = IF controller_alive THEN Append(controller_rx, m) ELSE controller_rx
    /\ UNCHANGED panicked

\* 'b': the result of the send is not looked at
Render_BackKey ==
    /\ TopKind(layers) \in {"main", "info", "confirm_clear"}
    /\ RenderSend_Unchecked(NavigateBack)
    /\ last_event' = Event("back_key", 0, <<>>)
    /\ UNCHANGED <<running, ui_rx, controller_alive, message, menu_vars, view_vars,
                   log_vars, last_msg>>

\* 's', or File > Save page as...
Render_SaveKey ==
    /\ RenderSend(RequestSaveAsDialog)
    /\ last_event' = Event("save_key", 0, <<>>)
    /\ UNCHANGED <<running, ui_rx, controller_alive, message, menu_vars, view_vars,
                   log_vars, last_msg>>

\* Bookmarks > Add bookmark
Render_AddBookmarkLeaf ==
    /\ RenderSend(RequestAddBookmarkDialog)
    /\ last_event' = Event("add_bookmark_leaf", 0, <<>>)
    /\ UNCHANGED <<running, ui_rx, controller_alive, message, menu_vars, view_vars,
                   log_vars, last_msg>>

\* History > Clear history: the dialog that asks
Render_ClearHistoryLeaf ==
    /\ RenderDone
    /\ Len(layers) < MaxLayers
    /\ layers' = Append(layers, Layer("confirm_clear", NoUrl, <<>>))
    /\ last_event' = Event("clear_history_leaf", 0, <<>>)
    /\ UNCHANGED <<running, chan_vars, message, menu_vars,
                   active_view, content_items, content_title, text_items, log_vars, last_msg>>

\* its Ok button
Render_ClearHistoryOk ==
    /\ TopKind(layers) = "confirm_clear"
    /\ layers' = PopLayer(layers)
    /\ RenderSend(CtlClearHistory)
    /\ last_event' = Event("clear_history_ok", 0, <<>>)
    /\ UNCHANGED <<running, ui_rx, controller_alive, message, menu_vars,
                   active_view, content_items, content_title, text_items, log_vars, last_msg>>

\* the Cancel button of a dialog, the Ok button of a Dialog::info: pop_layer
Render_Dismiss ==
    /\ RenderDone
    /\ TopKind(layers) \in {"save_as", "add_bookmark", "confirm_clear", "info"}
    /\ layers' = PopLayer(layers)
    /\ last_event' = Event("dismiss", 0, <<>>)
    /\ UNCHANGED <<running, chan_vars, message, menu_vars,
                   active_view, content_items, content_title, text_items, log_vars, last_msg>>

\* a save_as_action that closes the dialog and says nothing on an empty name
Render_SaveAsSubmit_Silent(name) ==
    /\ TopKind(layers) = "save_as"
    /\ layers' = PopLayer(layers)
    /\ IF name # <<>>
       THEN RenderSend(SavePageAs(name))
       ELSE RenderDone /\ UNCHANGED <<controller_rx, panicked>>
    /\ last_event' = Event("save_as_submit", 0, name)
    /\ UNCHANGED <<running, ui_rx, controller_alive, message, menu_vars,
                   active_view, content_items, content_title, text_items, log_vars, last_msg>>

\* save-as dialog, Enter in the field or Ok, with `name` in the field:
\* save_as_action
Render_SaveAsSubmit(name) ==
    /\ TopKind(layers) = "save_as"
    /\ IF name # <<>>
       THEN /\ layers' = PopLayer(layers)
            /\ RenderSend(SavePageAs(name))
       ELSE /\ layers' = Append(PopLayer(layers), InfoLayer(<<"No filename given!">>))
            /\ RenderDone
            /\ UNCHANGED <<controller_rx, panicked>>
    /\ last_event' = Event("save_as_submit", 0, name)
    /\ UNCHANGED <<running, ui_rx, controller_alive, message, menu_vars,
                   active_view, content_items, content_title, text_items, log_vars, last_msg>>

\* an Ok button that also puts the bookmark in the menu
Render_AddBookmarkOk_AlsoMenu(title, tags) ==
    /\ TopKind(layers) = "add_bookmark"
    /\ layers' = PopLayer(layers)
    /\ RenderSend(AddBookmark(layers[Len(layers)].url, title, tags))
    /\ last_event' = Event("add_bookmark_ok", 0, <<title, tags>>)
    /\ bookmarks_menu' = InsertLeaf(bookmarks_menu, 3,
                                    MenuLeaf(title, "open_url", layers[Len(layers)].url))
    /\ UNCHANGED <<running, ui_rx, controller_alive, message, history_menu,
                   active_view, content_items, content_title, text_items, log_vars, last_msg>>

\* add-bookmark dialog, Ok, with the two fields as typed; last_event keeps the
\* pair of them
Render_AddBookmarkOk(title, tags) ==
    /\ TopKind(layers) = "add_bookmark"
    /\ layers' = PopLayer(layers)
    /\ RenderSend(AddBookmark(layers[Len(layers)].url, title, tags))
    /\ last_event' = Event("add_bookmark_ok", 0, <<title, tags>>)
    /\ UNCHANGED <<running, ui_rx, controller_alive, message, menu_vars,
                   active_view, content_items, content_title, text_items, log_vars, last_msg>>

\* the children of a subtree of the menubar
MenuTreeOf(menu) == IF menu = "History" THEN history_menu ELSE bookmarks_menu

\* a leaf whose callback reads the entry the menu holds first
Render_MenuLeaf_Newest(menu, i) ==
    /\ RenderDone
    /\ i \in 4..Len(MenuTreeOf(menu))
    /\ MenuTreeOf(menu)[i].cb = "open_url"
    /\ UiSend(OpenURL(UrlToString(MenuTreeOf(menu)[4].url)))
    /\ last_event' = Event("menu_leaf", i, <<menu>> \o MenuTreeOf(menu)[i].label)
    /\ UNCHANGED <<running, controller_rx, controller_alive, panicked, message,
                   menu_vars, view_vars, applied, last_msg>>

\* item i (counted from 1) of the subtree History or Bookmarks, a leaf made by
\* add_to_history_menu or add_to_bookmark_menu: its closure sends the address
\* of the entry it has captured; last_event keeps the menu and the label
Render_MenuLeaf(menu, i) ==
    /\ RenderDone
    /\ i \in 4..Len(MenuTreeOf(menu))
    /\ MenuTreeOf(menu)[i].cb = "open_url"
    /\ UiSend(OpenURL(UrlToString(MenuTreeOf(menu)[i].url)))
    /\ last_event' = Event("menu_leaf", i, <<menu>> \o MenuTreeOf(menu)[i].label)
    /\ UNCHANGED <<running, controller_rx, controller_alive, panicked, message,
                   menu_vars, view_vars, applied, last_msg>>

---------------------------------------------------------------------------
(* The backend (crate::controller), seen from its two channel ends *)

BackendSend(m) ==
    /\ ~panicked
    /\ UiSend(m)
    /\ UNCHANGED <<running, controller_rx, controller_alive, panicked, message,
                   menu_vars, view_vars, pump_vars, applied, last_msg, last_event>>
    /\ UNCHANGED cfg_vars

\* the backend thread ends and drops the receiver of controller_tx
BackendGone ==
    /\ ~panicked /\ controller_alive
    /\ controller_alive' = FALSE
    /\ UNCHANGED <<running, ui_rx, controller_rx, panicked, message,
                   menu_vars, view_vars, pump_vars, log_vars, last_msg, last_event>>
    /\ UNCHANGED cfg_vars

\* The pump at rest with nothing queued, and a message sent and dispatched in
\* one step from there (the pump's position and the logs left as they are).
Idle == pc = "idle" /\ ~panicked /\ running /\ ui_rx = <<>>

Deliver(m) ==
    /\ Handle(m)
    /\ last_msg' = m
    /\ UNCHANGED <<running, ui_rx, controller_alive, pump_vars, log_vars, last_event>>
    /\ UNCHANGED cfg_vars

---------------------------------------------------------------------------
(* Settings::new (src/src/settings.rs) and the config crate as it uses it  *)

Keys == {"download_path", "homepage", "debug"}

\* config::Value: a boolean, a string or a table; Unset is a key without value
Bool(b)  == [kind |-> "bool", v |-> IF b THEN <<"true">> ELSE <<"false">>]
Str(x)   == [kind |-> "string", v |-> x]
Table    == [kind |-> "table", v |-> <<>>]
Unset    == [kind |-> "unset", v |-> <<>>]

\* Config::get_bool: Value::into_bool
GetBool(val) ==
    CASE val.kind = "bool" -> [ok |-> TRUE, b |-> val.v = <<"true">>]
      [] val.kind = "string" /\ val.v \in {<<"1">>, <<"true">>, <<"on">>, <<"yes">>}
                             -> [ok |-> TRUE, b |-> TRUE]
      [] val.kind = "string" /\ val.v \in {<<"0">>, <<"false">>, <<"off">>, <<"no">>}
                             -> [ok |-> TRUE, b |-> FALSE]
      [] OTHER               -> [ok |-> FALSE, b |-> FALSE]

\* Config::get::<String>: Value::into_str
GetString(val) ==
    CASE val.kind \in {"bool", "string"} -> [ok |-> TRUE, s |-> val.v]
      [] OTHER                            -> [ok |-> FALSE, s |-> <<>>]

\* the three calls of set_default
Defaults ==
    [k \in Keys |->
        CASE k = "download_path" -> Str(<<"Downloads">>)
          [] k = "homepage"      -> Str(GopherPrefix \o <<"jan.bio", ":", "70", "/", "0", "/",
                                                         "ncgopher", "/">>)
          [] k = "debug"         -> Bool(FALSE)]

\* Config::merge of a source that was read: its values over those held
Merge(config, table) ==
    [k \in Keys |-> IF table[k].kind = "unset" THEN config[k] ELSE table[k]]

NoTable == [k \in Keys |-> Unset]

\* the config file: absent, present and not read by the config crate (not a
\* file of a format it knows, or not well-formed), or read as a table
ConfigFile(kind, table) == [kind |-> kind, table |-> table]

\* dirs::config_dir() and the directory <config_dir>/ncgopher: no config dir,
\* a path that is not UTF-8, a directory that is absent and can be created,
\* one that cannot, one that is present
ConfigDirs == {"none", "not_utf8", "absent", "unwritable", "present"}

\* settings.config_filename
ConfigFilename(dir) ==
    IF dir = "none" THEN <<>> ELSE <<"~/.config", "/", "ncgopher", "/", "config">>

SettingsValue(state, config, filename) ==
    [state |-> state, config |-> config, config_filename |-> filename]

\* Settings::new has not been called
NoSettings == SettingsValue("none", NoTable, <<>>)

\* Settings::new: "ok" is Ok(settings), "panic" a failed unwrap
Settings_New ==
    /\ settings.state = "none"
    /\ IF config_fs.dir = "not_utf8"
       THEN /\ settings' = SettingsValue("panic", NoTable, <<>>)
            /\ UNCHANGED <<config_fs, warnings>>
       ELSE LET create  == IF config_fs.dir = "unwritable"
                           THEN <<"Could not create config dir">> ELSE <<>>
                confdir == ConfigFilename(config_fs.dir)
                exists  == config_fs.dir = "present" /\ config_fs.file.kind # "absent"
                merged  == exists /\ config_fs.file.kind = "table"
                read    == IF exists /\ ~merged
                           THEN <<"Could not read config file">> ELSE <<>>
                config  == IF merged THEN Merge(Defaults, config_fs.file.table) ELSE Defaults
                fine    == GetBool(config["debug"]).ok /\ GetString(config["homepage"]).ok
            IN /\ config_fs' = IF config_fs.dir = "absent"
                               THEN [config_fs EXCEPT !.dir = "present"] ELSE config_fs
               /\ warnings' = warnings \o create \o read
               /\ settings' = SettingsValue(IF fine THEN "ok" ELSE "panic", config, confdir)
    /\ UNCHANGED ui_vars

---------------------------------------------------------------------------
(* NcGopher::new and setup_ui *)

NcGopherNew ==
    /\ running = TRUE
    /\ ui_rx = <<>>
    /\ controller_rx = <<>>
    /\ controller_alive = TRUE
    /\ panicked = FALSE
    /\ message = <<>>
    /\ history_menu = HistoryStatic
    /\ bookmarks_menu = BookmarksStatic
    /\ layers = <<>>
    /\ active_view = "content"
    /\ content_items = <<>>
    /\ content_title = <<"Gophermap">>
    /\ text_items = <<>>
    /\ pc = "idle"
    /\ ret = "none"
    /\ renders = 0
    /\ drained = <<>>
    /\ arrived = <<>>
    /\ applied = <<>>
    /\ last_msg = NoMsg
    /\ last_event = Event("none", 0, <<>>)

\* the program started with no config file
Init ==
    /\ NcGopherNew
    /\ config_fs = [dir |-> "present", file |-> ConfigFile("absent", NoTable)]
    /\ settings = SettingsValue("ok", Defaults, ConfigFilename("present"))
    /\ warnings = <<>>

---------------------------------------------------------------------------
(* The History menu: history-added and history-cleared messages           *)

HistoryEntries == {Entry(<<"A">>, UrlA), Entry(<<"B">>, UrlB)}

AddHistory ==
    /\ Idle
    /\ \E h \in HistoryEntries : Deliver(AddToHistoryMenu(h))

ClearHistory ==
    /\ Idle
    /\ Deliver(ClearHistoryMenu)

NextHistory == AddHistory \/ ClearHistory

SpecHistory == Init /\ [][NextHistory]_vars

---------------------------------------------------------------------------
(* The pump: results and status texts of the backend, and quitting         *)

\* "1a<TAB>/a<TAB>h1<TAB>70", a directory at UrlA, then the terminator line
PayloadA == <<"1", "a", "\t", "/", "a", "\t", "h1", "\t", "70", "\n", ".", "\n">>
\* "0b<TAB>/b<TAB>h2<TAB>70", a file at UrlB
PayloadB == <<"0", "b", "\t", "/", "b", "\t", "h2", "\t", "70", "\n">>

PumpMsgs ==
    { ShowContent(UrlA, PayloadA, "Gophermap"),
      ShowContent(UrlB, PayloadB, "Gophermap"),
      ShowMessage(<<"X">>),
      ShowMessage(<<"Y">>) }

Backend_Pump == \E m \in PumpMsgs : BackendSend(m)

Next ==
    \/ Backend_Pump
    \/ Step_NotRunning
    \/ Step_Enter
    \/ Step_Dispatch
    \/ Render_NoEvent
    \/ Render_Quit

Spec == Init /\ [][Next]_vars

---------------------------------------------------------------------------
(* Stale results: a listing is shown, the user opens entries of it, and    *)
(* the backend answers the requests it has received, in any order          *)

UrlHome == MkUrl("h0", << <<"1">> >>)
UrlC == MkUrl("h1", << <<"1">>, <<"c">> >>)
UrlD == MkUrl("h2", << <<"0">>, <<"d">> >>)

\* two directories (UrlA, UrlC) and two files (UrlB, UrlD)
HomePayload ==
    <<"1", "a", "\t", "/", "a", "\t", "h1", "\t", "70", "\n",
      "0", "b", "\t", "/", "b", "\t", "h2", "\t", "70", "\n",
      "1", "c", "\t", "/", "c", "\t", "h1", "\t", "70", "\n",
      "0", "d", "\t", "/", "d", "\t", "h2", "\t", "70", "\n">>

\* what the backend fetches at an address: one line naming its selector
PayloadOf(u) == <<"i">> \o u.path[Len(u.path)] \o <<"\n">>

\* the backend's first result, the home page
Backend_Startup ==
    /\ arrived = <<>>
    /\ BackendSend(ShowContent(UrlHome, HomePayload, "Gophermap"))

\* the backend's result for a FetchUrl it has received
Backend_Reply ==
    /\ arrived # <<>>
    /\ \E i \in 1..Len(controller_rx) :
         /\ controller_rx[i].type = "FetchUrl"
         /\ BackendSend(ShowContent(controller_rx[i].url,
                                    PayloadOf(controller_rx[i].url),
                                    controller_rx[i].ctype))

User_SelectEntry ==
    /\ TRUE
    /\ \E i \in 1..Len(content_items) : Render_SelectEntry(i)

NextStale ==
    \/ Backend_Startup
    \/ Backend_Reply
    \/ User_SelectEntry
    \/ Step_Enter
    \/ Step_Dispatch
    \/ Render_NoEvent

SpecStale == Init /\ [][NextStale]_vars

---------------------------------------------------------------------------
(* Selecting entries: a listing with an entry of every kind is shown and   *)
(* the user presses Enter on its items                                     *)

UrlMenu == MkUrl("h0", << <<"1">>, <<"menu">> >>)

\* one line of a listing: <code><label> TAB /<label> TAB h1 TAB 70
ListingLine(code, label) ==
    <<code, label, "\t", "/", label, "\t", "h1", "\t", "70", "\n">>

\* the type codes of the entries of the listing, in its order
MenuCodes == <<"1", "0", "9", "g", "I", "4", "5", "6", "7", "i", "h">>

RECURSIVE ListingOf(_)
ListingOf(codes) ==
    IF codes = <<>> THEN <<".", "\n">>
    ELSE ListingLine(Head(codes), "e") \o ListingOf(Tail(codes))

MenuPayload == ListingOf(MenuCodes)

Backend_Menu ==
    /\ arrived = <<>>
    /\ BackendSend(ShowContent(UrlMenu, MenuPayload, "Gophermap"))

User_Select ==
    /\ content_items # <<>>
    /\ \E i \in 1..Len(content_items) : Render_SelectEntry(i)

NextSelect ==
    \/ Backend_Menu
    \/ User_Select
    \/ Step_Enter
    \/ Step_Dispatch
    \/ Render_NoEvent

SpecSelect == Init /\ [][NextSelect]_vars

---------------------------------------------------------------------------
(* The URL dialog: the user opens it, types an address and submits or      *)
(* cancels; the backend may be gone                                        *)

UrlInputs ==
    { <<>>,                                              \* nothing typed
      <<"h1", "/", "1", "/", "a">>,                      \* h1/1/a
      GopherPrefix \o <<"h1", "/", "1", "/", "a">>,      \* gopher://h1/1/a
      <<"http", ":", "/", "/", "h1", "/">>,              \* http://h1/
      <<"h1", ":", "x">> }                               \* h1:x, no port number

User_OpenUrl ==
    /\ running
    /\ Render_OpenUrlKey

User_UrlSubmit ==
    /\ running
    /\ \E name \in UrlInputs : Render_UrlDialogSubmit(name)

User_UrlCancel ==
    /\ running
    /\ Render_UrlDialogCancel

Backend_Gone ==
    /\ running
    /\ BackendGone

NextUrl ==
    \/ User_OpenUrl
    \/ User_UrlSubmit
    \/ User_UrlCancel
    \/ Backend_Gone
    \/ Step_Enter
    \/ Step_Dispatch
    \/ Render_NoEvent

SpecUrl == Init /\ [][NextUrl]_vars

---------------------------------------------------------------------------
(* The query dialog: a listing with a search entry is shown, the user      *)
(* selects it and presses Ok with or without a query typed                 *)

UrlIndex == MkUrl("h0", << <<"1">>, <<"index">> >>)

IndexPayload == ListingOf(<<"7", "1">>)

QueryInputs == { <<>>, <<"q">> }

Backend_Index ==
    /\ arrived = <<>>
    /\ BackendSend(ShowContent(UrlIndex, IndexPayload, "Gophermap"))

User_SelectIndex ==
    /\ running
    /\ \E i \in 1..Len(content_items) : Render_SelectEntry(i)

User_QueryOk ==
    /\ running
    /\ \E n \in QueryInputs : Render_QueryDialogOk(n)

NextQuery ==
    \/ Backend_Index
    \/ User_SelectIndex
    \/ User_QueryOk
    \/ Step_Enter
    \/ Step_Dispatch
    \/ Render_NoEvent

SpecQuery == Init /\ [][NextQuery]_vars

---------------------------------------------------------------------------
(* Save page as: the user asks for the dialog, the backend opens it for    *)
(* the address of the page, the user submits a name or cancels             *)

\* gopher://h1:70/0/b.gif, /0/b.txt, /1/a, /1/ (an empty last segment) and
\* gopher://h1 (no path)
SaveUrls ==
    { MkUrl("h1", << <<"0">>, <<"b", ".gif">> >>),
      MkUrl("h1", << <<"0">>, <<"b", ".txt">> >>),
      MkUrl("h1", << <<"1">>, <<"a">> >>),
      MkUrl("h1", << <<"1">>, <<>> >>),
      MkUrl("h1", <<>>) }

SaveNames == { <<>>, <<"n", ".txt">> }

User_SaveKey ==
    /\ running
    /\ Render_SaveKey

\* the messages of a type in a queue or a log
OfType(q, t) == SelectSeq(q, LAMBDA m : m.type = t)

\* the backend's answer to a RequestSaveAsDialog: the dialog for its current page
Backend_SaveAsDialog ==
    /\ Len(OfType(arrived, "ShowSaveAsDialog")) < Len(OfType(controller_rx, "RequestSaveAsDialog"))
    /\ \E u \in SaveUrls : BackendSend(ShowSaveAsDialog(u))

User_SaveAsSubmit ==
    /\ running
    /\ \E name \in SaveNames : Render_SaveAsSubmit(name)

User_Dismiss ==
    /\ running
    /\ Render_Dismiss

NextSaveAs ==
    \/ User_SaveKey
    \/ Backend_SaveAsDialog
    \/ User_SaveAsSubmit
    \/ User_Dismiss
    \/ Backend_Gone
    \/ Step_Enter
    \/ Step_Dispatch
    \/ Render_NoEvent

SpecSaveAs == Init /\ [][NextSaveAs]_vars

---------------------------------------------------------------------------
(* Adding a bookmark: the user asks for the dialog, the backend opens it   *)
(* for the address of the page, the user fills it in or cancels, and the   *)
(* backend reports the bookmark it has stored                              *)

FieldInputs == { <<>>, <<"t">> }

User_AddBookmarkLeaf ==
    /\ running
    /\ Render_AddBookmarkLeaf

Backend_AddBookmarkDialog ==
    /\ Len(OfType(arrived, "ShowAddBookmarkDialog"))
         < Len(OfType(controller_rx, "RequestAddBookmarkDialog"))
    /\ \E u \in {UrlA, UrlB} : BackendSend(ShowAddBookmarkDialog(u))

User_AddBookmarkOk ==
    /\ running
    /\ \E title, tags \in FieldInputs : Render_AddBookmarkOk(title, tags)

\* the backend has stored a bookmark it was asked to add
Backend_BookmarkAdded ==
    /\ Len(OfType(arrived, "AddToBookmarkMenu")) < Len(OfType(controller_rx, "AddBookmark"))
    /\ LET b == OfType(controller_rx, "AddBookmark")[Len(OfType(arrived, "AddToBookmarkMenu")) + 1]
       IN BackendSend(AddToBookmarkMenu(Entry(b.text, b.url)))

NextBookmark ==
    \/ User_AddBookmarkLeaf
    \/ Backend_AddBookmarkDialog
    \/ User_AddBookmarkOk
    \/ User_Dismiss
    \/ Backend_BookmarkAdded
    \/ Backend_Gone
    \/ Step_Enter
    \/ Step_Dispatch
    \/ Render_NoEvent

SpecBookmark == Init /\ [][NextBookmark]_vars

---------------------------------------------------------------------------
(* Dialogs: the messages that open a dialog arrive in any number and       *)
(* order, and the user closes the dialog on top                            *)

DialogMsgs ==
    { ShowURLDialog, OpenQueryDialog(UrlA), ShowSaveAsDialog(UrlA),
      ShowAddBookmarkDialog(UrlA) }

Backend_OpenDialog ==
    /\ running
    /\ \E m \in DialogMsgs : BackendSend(m)

NextDialogs ==
    \/ Backend_OpenDialog
    \/ User_OpenUrl
    \/ User_UrlCancel
    \/ User_Dismiss
    \/ Step_Enter
    \/ Step_Dispatch
    \/ Render_NoEvent

SpecDialogs == Init /\ [][NextDialogs]_vars

---------------------------------------------------------------------------
(* Outbound requests: the backend may be gone when a callback or a handler *)
(* sends on controller_tx                                                  *)

\* the messages that open the dialogs whose buttons send a request, and those
\* whose handlers send one, in the order in which they are sent here
SendMsgs ==
    << ShowSaveAsDialog(UrlA), ShowAddBookmarkDialog(UrlA),
       OpenUrl(UrlA, "Gophermap"), OpenQueryUrl(UrlA, <<"q">>), OpenUrl(UrlB, "Binary") >>

Env_Send ==
    /\ ui_rx = <<>>
    /\ Len(arrived) < Len(SendMsgs)
    /\ BackendSend(SendMsgs[Len(arrived) + 1])

User_Back ==
    /\ running
    /\ Render_BackKey

User_ClearHistoryLeaf ==
    /\ running
    /\ Render_ClearHistoryLeaf

User_ClearHistoryOk ==
    /\ running
    /\ Render_ClearHistoryOk

NextSend ==
    \/ Env_Send
    \/ Backend_Gone
    \/ User_Back
    \/ User_SaveKey
    \/ User_AddBookmarkLeaf
    \/ User_ClearHistoryLeaf
    \/ User_ClearHistoryOk
    \/ User_SaveAsSubmit
    \/ User_AddBookmarkOk
    \/ Step_Enter
    \/ Step_Dispatch
    \/ Render_NoEvent

SpecSend == Init /\ [][NextSend]_vars

---------------------------------------------------------------------------
(* Listings: the backend sends content-ready(listing) messages whose       *)
(* payloads are given line by line                                         *)

LineTitle  == <<"/", "t">>
LineDirA   == <<"1", "a", "\t", "/", "a", "\t", "h1", "\t", "70">>
LineFileB  == <<"0", "b", "\t", "/", "b", "\t", "h2", "\t", "70">>
Terminator == <<".">>

\* a payload by its lines and whether a line break ends the last of them:
\* a title, an entry and the terminator; an entry, the terminator and an entry
\* after it, with no final line break; the terminator alone
ListingCases ==
    { [lines |-> <<LineTitle, LineDirA, Terminator>>, final_break |-> TRUE],
      [lines |-> <<LineFileB, Terminator, LineDirA>>, final_break |-> FALSE],
      [lines |-> <<Terminator>>, final_break |-> TRUE] }

RECURSIVE JoinLines(_)
JoinLines(ls) ==
    IF Len(ls) = 1 THEN Head(ls) ELSE Head(ls) \o <<"\n">> \o JoinLines(Tail(ls))

PayloadOfLines(c) == JoinLines(c.lines) \o (IF c.final_break THEN <<"\n">> ELSE <<>>)

ListingMsg(c) == ShowContent(UrlMenu, PayloadOfLines(c), "Gophermap")

Backend_Listing ==
    /\ running
    /\ \E c \in ListingCases : BackendSend(ListingMsg(c))

NextListing ==
    \/ Backend_Listing
    \/ Step_Enter
    \/ Step_Dispatch
    \/ Render_NoEvent

SpecListing == Init /\ [][NextListing]_vars

---------------------------------------------------------------------------
(* The dynamic menus: the History menu is filled, then history-added,      *)
(* history-cleared and bookmark-added messages arrive and the user         *)
(* activates items of the two menus                                        *)

MenuEntries == {Entry(<<"A">>, UrlA), Entry(<<"B">>, UrlB)}

\* the bookmarks and the history the backend has loaded and reports while
\* the program starts, the bookmarks first: these entries in this order,
\* again and again
StartupCycle == <<Entry(<<"A">>, UrlA), Entry(<<"B">>, UrlB), Entry(<<"B">>, UrlB)>>

Backend_LoadBookmarks ==
    /\ Idle /\ arrived = <<>> /\ history_menu = HistoryStatic
    /\ Len(Dynamic(bookmarks_menu)) < MaxBookmarks
    /\ Deliver(AddToBookmarkMenu(StartupCycle[(Len(Dynamic(bookmarks_menu)) % 3) + 1]))

\* the history is reported once the bookmarks are: none, or MaxBookmarks
Backend_LoadHistory ==
    /\ Idle /\ arrived = <<>>
    /\ Len(Dynamic(bookmarks_menu)) \in {0, MaxBookmarks}
    /\ Deliver(AddToHistoryMenu(StartupCycle[(Len(Dynamic(history_menu)) % 3) + 1]))

\* what the backend reports later
MenuMsgs ==
    { AddToBookmarkMenu(Entry(<<"A">>, UrlA)),
      AddToHistoryMenu(Entry(<<"A">>, UrlA)),
      ClearHistoryMenu }

Backend_MenuMsg ==
    /\ ui_rx = <<>> /\ Len(arrived) < MaxMenuMsgs
    /\ \E m \in MenuMsgs : BackendSend(m)

\* the items the user activates: the newest, the one after it, the oldest
MenuPicks(tree) == {4, 5, Len(tree)} \cap (4..Len(tree))

User_HistoryItem ==
    /\ Len(arrived) < MaxMenuMsgs
    /\ \E i \in MenuPicks(history_menu) : Render_MenuLeaf("History", i)

User_BookmarkItem ==
    /\ Len(arrived) < MaxMenuMsgs
    /\ \E i \in MenuPicks(bookmarks_menu) : Render_MenuLeaf("Bookmarks", i)

NextMenu ==
    \/ Backend_LoadBookmarks
    \/ Backend_LoadHistory
    \/ Backend_MenuMsg
    \/ User_HistoryItem
    \/ User_BookmarkItem
    \/ Step_Enter
    \/ Step_Dispatch
    \/ Render_NoEvent

SpecMenu == Init /\ [][NextMenu]_vars

---------------------------------------------------------------------------
(* The two panes: a listing with a text file and a search entry is shown,  *)
(* the user opens entries, submits queries and goes back, and the backend  *)
(* answers the requests in their order                                     *)

\* "0e<TAB>/e<TAB>h1<TAB>70", "7e<TAB>/e<TAB>h1<TAB>70", "."
PanesPayload == ListingOf(<<"0", "7">>)

Backend_PanesHome ==
    /\ arrived = <<>>
    /\ BackendSend(ShowContent(UrlHome, PanesPayload, "Gophermap"))

\* the backend's result for a request: the content fetched, and for
\* navigate-back the listing of an earlier page
AnswerTo(r) ==
    IF r.type = "FetchUrl"
    THEN ShowContent(r.url, PayloadOf(r.url), r.ctype)
    ELSE ShowContent(UrlA, PayloadA, "Gophermap")

Backend_Answer ==
    /\ arrived # <<>>
    /\ Len(OfType(arrived, "ShowContent")) <= Len(controller_rx)
    /\ BackendSend(AnswerTo(controller_rx[Len(OfType(arrived, "ShowContent"))]))

NextPanes ==
    \/ Backend_PanesHome
    \/ Backend_Answer
    \/ User_Select
    \/ User_QueryOk
    \/ User_Back
    \/ Step_Enter
    \/ Step_Dispatch
    \/ Render_NoEvent

SpecPanes == Init /\ [][NextPanes]_vars

---------------------------------------------------------------------------
(* Ticks: the backend sends messages of every kind, some of them in a row, *)
(* while the user opens the URL dialog, submits it, selects entries and    *)
(* activates items of the History and Bookmarks menus                      *)

\* the messages the backend sends, in this order, from any of them on
TickMsgs ==
    << AddToHistoryMenu(Entry(<<"B">>, UrlB)),
       ShowContent(UrlMenu, PayloadA, "Gophermap"),
       ShowMessage(<<"X">>),
       ClearHistoryMenu,
       AddToBookmarkMenu(Entry(<<"A">>, UrlA)),
       OpenUrl(UrlHome, "Gophermap"),
       OpenQueryUrl(UrlIndex, <<"q">>),
       OpenQueryDialog(UrlIndex),
       ShowSaveAsDialog(UrlB),
       ShowAddBookmarkDialog(UrlB),
       ShowSearchDialog(UrlIndex),
       BinaryWritten(<<"b">>, <<"3">>),
       PageSaved(UrlB, "Text", <<"b", ".txt">>),
       ShowContent(UrlB, PayloadB, "Text"),
       OpenUrl(UrlD, "Binary"),
       OpenURL(<<"h1", ":", "x">>) >>

\* the place in TickMsgs of the message the backend has sent last, 0 if none
TickSent ==
    LET sent == SelectSeq(arrived, LAMBDA m : \E j \in 1..Len(TickMsgs) : TickMsgs[j] = m)
    IN IF sent = <<>> THEN 0 ELSE IndexOf(TickMsgs, sent[Len(sent)])

\* where the backend starts: each message of TickMsgs is sent in some run
TickStarts == {1, 5, 9, 13}

\* the user submits the URL dialog with the address of the text document
User_SubmitAddress ==
    /\ pc = "drain"
    /\ Render_UrlDialogSubmit(UrlToString(UrlB))

Backend_Tick ==
    /\ running
    /\ \E j \in 1..Len(TickMsgs) :
          /\ IF TickSent = 0 THEN j \in TickStarts ELSE j = TickSent + 1
          /\ BackendSend(TickMsgs[j])

NextTick ==
    \/ Backend_Tick
    \/ Backend_Gone
    \/ User_OpenUrl
    \/ User_SubmitAddress
    \/ User_Select
    \/ User_HistoryItem
    \/ User_BookmarkItem
    \/ Step_Enter
    \/ Step_Dispatch
    \/ Render_NoEvent

SpecTick == Init /\ [][NextTick]_vars

\* a turn of the while loop of step, as the log of applied messages shows it:
\* the steps of Step_Dispatch, which is enabled whenever a message is queued
DrainTurn ==
    /\ pc = "drain" /\ ~panicked /\ ui_rx # <<>>
    /\ applied' = Append(applied, Head(ui_rx))

\* step() runs to its end: the loop takes its next turn and the render step
\* returns; the caller calls step again while it returns true
SpecTickFair ==
    SpecTick /\ WF_vars(Step_Enter) /\ WF_applied(DrainTurn) /\ WF_vars(Render_NoEvent)

---------------------------------------------------------------------------
(* Loading the configuration: Settings::new in every state of the config   *)
(* dir and the config file                                                 *)

\* the values a config file gives a key
FileValues(k) ==
    CASE k = "download_path" -> {Unset, Str(<<"dl">>), Table}
      [] k = "homepage"      -> {Unset, Str(GopherPrefix \o <<"h1", "/">>), Bool(TRUE), Table}
      [] k = "debug"         -> {Unset, Bool(TRUE), Bool(FALSE), Str(<<"yes">>),
                                 Str(<<"maybe">>), Table}

FileTables == {t \in [Keys -> UNION {FileValues(k) : k \in Keys}] :
                 \A k \in Keys : t[k] \in FileValues(k)}

ConfigFiles ==
    {ConfigFile("absent", NoTable), ConfigFile("unreadable", NoTable)}
        \cup {ConfigFile("table", t) : t \in FileTables}

InitSettings ==
    /\ NcGopherNew
    /\ \E dir \in ConfigDirs, file \in ConfigFiles :
          /\ dir # "present" => file.kind = "absent"
          /\ config_fs = [dir |-> dir, file |-> file]
    /\ settings = NoSettings
    /\ warnings = <<>>

NextSettings == Settings_New

SpecSettings == InitSettings /\ [][NextSettings]_vars

---------------------------------------------------------------------------

\* C1: after any sequence of history-added and history-cleared messages the
\* History menu holds at most HISTORY_LEN (10) dynamic items.
C1_HistoryAtMostTen == Len(Dynamic(history_menu)) <= HISTORY_LEN

\* C2: a history-added message applied to a menu of 10 dynamic items leaves 10
\* dynamic items: the new one first, then the former ones but the oldest (last).
C2_EleventhEvictsOldest ==
    [][ (Len(Dynamic(history_menu)) = HISTORY_LEN /\ last_msg'.type = "AddToHistoryMenu")
        => /\ Len(Dynamic(history_menu')) = HISTORY_LEN
           /\ Dynamic(history_menu')[1].label = last_msg'.text
           /\ SubSeq(Dynamic(history_menu'), 2, HISTORY_LEN)
                = SubSeq(Dynamic(history_menu), 1, HISTORY_LEN - 1)
           /\ SubSeq(history_menu', 1, 3) = HistoryStatic ]_vars

\* C3: once a history-cleared message has been applied, the History menu is its
\* three static items and nothing else, whatever it held before.
C3_ClearLeavesStatic ==
    last_msg = ClearHistoryMenu => history_menu = HistoryStatic

\* a clear has been applied to a menu and has emptied it
C3_Witness ==
    last_msg = ClearHistoryMenu /\ Len(Dynamic(history_menu)) = 0

---------------------------------------------------------------------------

\* the last element of s that satisfies P, as a sequence of at most one element
LastWhere(s, P(_)) ==
    LET hits == SelectSeq(s, P) IN IF hits = <<>> THEN <<>> ELSE <<hits[Len(hits)]>>

C5_StoppedIsTerminal ==
    /\ [][~running
            => /\ ~running'
               /\ pc' = "idle"
               /\ ret' \in {ret, "false"}
               /\ renders' \in {renders, 0}
               /\ applied' = applied
               /\ controller_rx' = controller_rx
               /\ <<message, menu_vars, view_vars>>' = <<message, menu_vars, view_vars>>]_vars
    /\ [][(ret' = "false" /\ ret # "false") => (~running /\ pc = "idle")]_vars
    /\ []((~running /\ ~panicked) => ENABLED Step_NotRunning)

\* step has returned false with a message still queued
C5_Witness == ~running /\ ret = "false" /\ ui_rx # <<>> /\ renders = 0

IsStatus(m)  == m.type \in {"ShowMessage", "ShowContent"}
IsListing(m) == m.type = "ShowContent" /\ m.ctype = "Gophermap"

\* C6: when a tick has returned true it has made one render step, the status
\* text is that of the last message of the drain that sets one (the text of a
\* status-text, the address of a content-ready), and the listing is built from
\* the payload of the drain's last content-ready(listing).
C6_DrainEndsWithLastStatus ==
    (pc = "idle" /\ ret = "true") =>
        /\ renders = 1
        /\ \A i \in 1..Len(LastWhere(drained, IsStatus)) :
             LET m == LastWhere(drained, IsStatus)[i]
             IN message = IF m.type = "ShowMessage" THEN m.text ELSE UrlToString(m.url)
        /\ \A i \in 1..Len(LastWhere(drained, IsListing)) :
             LET m == LastWhere(drained, IsListing)[i]
             IN /\ Len(content_items) = 1
                /\ content_items[1].entry = GopherMapEntry("Dir", <<"a">>, UrlA) <=> m.url = UrlA
                /\ content_items[1].entry = GopherMapEntry("File", <<"b">>, UrlB) <=> m.url = UrlB

\* the drain of [content-ready(A, payload, listing), status-text("X")]
C6_Witness ==
    /\ pc = "idle" /\ ret = "true" /\ renders = 1
    /\ drained = <<ShowContent(UrlA, PayloadA, "Gophermap"), ShowMessage(<<"X">>)>>
    /\ message = <<"X">>
    /\ content_items = <<[label |-> <<"[MAP]  ", "a">>,
                          entry |-> GopherMapEntry("Dir", <<"a">>, UrlA)]>>

---------------------------------------------------------------------------

\* the pane on screen and its items
Displayed ==
    IF active_view = "content"
    THEN [pane |-> "content", items |-> content_items]
    ELSE [pane |-> "text", items |-> text_items]

\* what a content-ready of PayloadOf(u) puts on screen: as a listing, one
\* untagged item labelled with the raw line; as a text, the line indented
RenderingOf(u, ct) ==
    LET line == <<"i">> \o u.path[Len(u.path)]
    IN IF ct = "Gophermap"
       THEN [pane |-> "content",
             items |-> <<[label |-> <<"       ">> \o line,
                          entry |-> GopherMapEntry("Inline", line, NoUrl)]>>]
       ELSE [pane |-> "text", items |-> << <<"  ">> \o line >>]

\* exactly A and then B have been requested, and the last two messages applied
\* are the result for B and then the result for A
StaleResult(a, b) ==
    /\ a.type = "ShowContent" /\ b.type = "ShowContent" /\ a.url # b.url
    /\ controller_rx = <<FetchUrl(a.url, a.ctype, <<>>), FetchUrl(b.url, b.ctype, <<>>)>>
    /\ Len(applied) >= 2
    /\ applied[Len(applied)] = a /\ applied[Len(applied) - 1] = b

Results == {ShowContent(u[1], PayloadOf(u[1]), u[2]) :
              u \in {<<UrlA, "Gophermap">>, <<UrlB, "Text">>,
                     <<UrlC, "Gophermap">>, <<UrlD, "Text">>}}

\* C7 as claimed: after requests for A then B and results B then A, the status
\* text and the content on screen are A's.
C7_StaleResultIsDisplayed ==
    \A a, b \in Results :
        StaleResult(a, b) =>
            /\ message = UrlToString(a.url)
            /\ Displayed = RenderingOf(a.url, a.ctype)

\* C7 as amended: a content-ready is rendered when applied, whatever was
\* requested last: the status text is its address and the pane of its kind
\* holds its payload.  After requests A then B and results B then A, the pane
\* on screen shows A's content, except that a listing A leaves the text pane
\* with B's text on screen.
C7_StaleResultIsRendered ==
    /\ \A a \in Results :
         (applied # <<>> /\ applied[Len(applied)] = a) =>
            /\ message = UrlToString(a.url)
            /\ IF a.ctype = "Gophermap"
               THEN content_items = RenderingOf(a.url, a.ctype).items
               ELSE text_items = RenderingOf(a.url, a.ctype).items
    /\ \A a, b \in Results :
         StaleResult(a, b) =>
            \/ Displayed = RenderingOf(a.url, a.ctype)
            \/ /\ a.ctype = "Gophermap" /\ b.ctype = "Text"
               /\ Displayed = RenderingOf(b.url, b.ctype)

\* the result for A, applied after the result for the later request B, is on
\* screen and in the status bar
C7_Witness ==
    \E a, b \in Results :
        /\ StaleResult(a, b)
        /\ message = UrlToString(a.url)
        /\ Displayed = RenderingOf(a.url, a.ctype)

---------------------------------------------------------------------------

\* what the listing item types of the claim send when selected; the types the
\* claim does not name are left out
SelectionOf(e) ==
    CASE e.item_type = "Dir"  -> {OpenUrl(e.url, "Gophermap")}
      [] e.item_type = "File" -> {OpenUrl(e.url, "Text")}
      [] e.item_type \in {"Binary", "Image", "Gif", "BinHex", "Dos"}
                              -> {OpenUrl(e.url, "Binary")}
      [] e.item_type = "IndexServer" -> {OpenQueryDialog(e.url)}
      [] e.item_type = "Inline" -> {}

\* the messages a step has put on ui_rx
Sent == SubSeq(arrived', Len(arrived) + 1, Len(arrived'))

\* the render step of this step handles an input event of the kind
EventStep(kind) == renders' = renders + 1 /\ last_event'.kind = kind

\* C8: selecting an entry sends one open-address message with listing kind for
\* a directory, text kind for a text file, binary kind for a binary, image,
\* GIF ('g') or legacy-encoded entry; for a search entry it sends the
\* open-query-dialog message and no fetch; an informational entry sends nothing.
C8_SelectionByType ==
    [][ EventStep("select") =>
          LET e == content_items[last_event'.index].entry
          IN e.item_type \in {"Dir", "File", "Binary", "Image", "Gif", "BinHex",
                              "Dos", "IndexServer", "Inline"}
               => /\ Sent = IF SelectionOf(e) = {} THEN <<>>
                            ELSE <<CHOOSE m \in SelectionOf(e) : TRUE>>
                  /\ controller_rx' = controller_rx ]_vars

\* the normalization of the claim: the default scheme is prefixed to an input
\* that has no scheme
NormalizeIfNoScheme(s) == IF HasScheme(s) THEN s ELSE GopherPrefix \o s

\* the dispatch of an open-URL-string message on this step, for a
\* normalization N: one of the parses of N(input) is acted on.  Parsed, an
\* open-by-address request for the address is emitted (a send to a backend that
\* is gone is fatal); not parsed, nothing is sent, the status text is the
\* error, and nothing else changes.
OpenUrlStringDispatch(N(_)) ==
    (applied' # applied /\ last_msg'.type = "OpenURL") =>
        \E res \in UrlParse(N(last_msg'.text)) :
            IF res.ok
            THEN IF controller_alive
                 THEN /\ controller_rx' = Append(controller_rx, FetchUrl(res.url, "Gophermap", <<>>))
                      /\ ~panicked'
                      /\ message' = <<"Loading ...">>
                 ELSE panicked'
            ELSE /\ controller_rx' = controller_rx
                 /\ ~panicked'
                 /\ message' = <<"Invalid URL: ">> \o res.err
                 /\ message' # <<>>
                 /\ <<menu_vars, view_vars, running>>' = <<menu_vars, view_vars, running>>

\* submitting the URL dialog closes it and sends the text as typed
UrlSubmitCloses ==
    EventStep("url_submit") =>
        /\ layers # <<>> /\ layers[Len(layers)].kind = "url"
        /\ layers' = SubSeq(layers, 1, Len(layers) - 1)
        /\ Sent = <<OpenURL(last_event'.text)>>
        /\ <<controller_rx, message>>' = <<controller_rx, message>>

\* C9 as claimed: submitting the URL dialog closes it; the input is prefixed
\* with the default scheme only if it lacks a scheme, and parsed; parsed, an
\* open-by-address request is emitted; not parsed, no request is sent and the
\* status text is a non-empty error.
C9_PrefixIfNoScheme ==
    [][UrlSubmitCloses /\ OpenUrlStringDispatch(NormalizeIfNoScheme)]_vars

\* C9 as amended: the input is prefixed with "gopher://" unless it starts with
\* "gopher://" (an input with another scheme is prefixed too); normalizing
\* twice is normalizing once; the rest as claimed.
C9_PrefixUnlessGopher ==
    /\ [][UrlSubmitCloses /\ OpenUrlStringDispatch(NormalizeUrlString)]_vars
    /\ [](\A s \in UrlInputs :
            /\ NormalizeUrlString(s) = IF StartsWith(s, GopherPrefix) THEN s
                                       ELSE GopherPrefix \o s
            /\ NormalizeUrlString(NormalizeUrlString(s)) = NormalizeUrlString(s))
    /\ [](\A i \in 1..Len(controller_rx) :
            controller_rx[i].type = "FetchUrl" /\ controller_rx[i].url.scheme = "gopher")

\* the dialog has been submitted twice, with h1/1/a and then with h1:x: the
\* first was prefixed and requested, the second has left an error, the dialog
\* is closed and nothing has failed
C9_Witness ==
    /\ layers = <<>> /\ ~panicked
    /\ Len(applied) >= 2
    /\ applied[Len(applied)] = OpenURL(<<"h1", ":", "x">>)
    /\ message = <<"Invalid URL: ", "invalid port number">>
    /\ controller_rx = <<FetchUrl([scheme |-> "gopher", host |-> <<"h1">>, port |-> <<>>,
                                   path |-> << <<"1">>, <<"a">> >>],
                                  "Gophermap", <<>>)>>

\* C10: pressing Ok in the query dialog closes it; with a non-empty text it
\* sends one submit-query message holding the entry's address and the text;
\* with an empty text it sends no message and no fetch results from it.
C10_EmptyQueryIsDropped ==
    [][ EventStep("query_ok") =>
          /\ layers' = SubSeq(layers, 1, Len(layers) - 1)
          /\ controller_rx' = controller_rx
          /\ Sent = IF last_event'.text # <<>>
                    THEN <<OpenQueryUrl(layers[Len(layers)].url, last_event'.text)>>
                    ELSE <<>> ]_vars

---------------------------------------------------------------------------

\* the top layer is a dialog of the kind
TopIs(kind) == layers # <<>> /\ layers[Len(layers)].kind = kind

\* the layers with the top one removed
Closed == SubSeq(layers, 1, Len(layers) - 1)

\* C11: submitting the save-as dialog with a non-empty name closes it and sends
\* one save-as(name) request (the send is fatal when the backend is gone); with
\* an empty name it closes the dialog, sends nothing and shows a notice in its
\* place.  Cancel closes the dialog and sends nothing.
C11_SaveAsSubmit ==
    /\ [][ EventStep("save_as_submit") =>
             /\ TopIs("save_as")
             /\ arrived' = arrived
             /\ IF last_event'.text # <<>>
                THEN /\ layers' = Closed
                     /\ IF controller_alive
                        THEN /\ controller_rx' = Append(controller_rx,
                                    [type |-> "SavePageAs", url |-> NoUrl, ctype |-> "None",
                                     text |-> last_event'.text])
                             /\ ~panicked'
                        ELSE panicked' /\ controller_rx' = controller_rx
                ELSE /\ controller_rx' = controller_rx
                     /\ ~panicked'
                     /\ Len(layers') = Len(layers)
                     /\ SubSeq(layers', 1, Len(layers) - 1) = Closed
                     /\ layers'[Len(layers')].kind = "info"
                     /\ layers'[Len(layers')].prefill # <<>> ]_vars
    /\ [][ (EventStep("dismiss") /\ TopIs("save_as")) =>
             /\ layers' = Closed
             /\ controller_rx' = controller_rx
             /\ arrived' = arrived
             /\ ~panicked' ]_vars

\* a name has been saved under, and a later dialog submitted empty has left
\* the notice on screen
C11_Witness ==
    /\ last_event.kind = "save_as_submit" /\ last_event.text = <<>>
    /\ TopIs("info")
    /\ controller_rx # <<>>
    /\ controller_rx[Len(controller_rx)] = SavePageAs(<<"n", ".txt">>)
    /\ ~panicked

\* the endings that are file name extensions
Extensions == {".txt", ".gif"}

\* the pre-filled name of the claim: the last path segment, or the default
\* base name, with the default extension if it has none
NameWithExtension(u) ==
    LET seg  == IF u.path = <<>> THEN <<>> ELSE u.path[Len(u.path)]
        base == IF seg = <<>> THEN <<"download">> ELSE seg
    IN IF Len(base) >= 2 /\ base[Len(base)] \in Extensions
       THEN base ELSE base \o <<".txt">>

\* C12: the save-as dialog opens pre-filled with the last path segment of the
\* address, or with the default base name when there is none or it is empty,
\* the default extension appended if and only if the name has no extension.
C12_PrefillKeepsExtension ==
    [][ (applied' # applied /\ last_msg'.type = "ShowSaveAsDialog") =>
          /\ ~panicked'
          /\ layers' = Append(layers, [kind |-> "save_as", url |-> last_msg'.url,
                                       prefill |-> NameWithExtension(last_msg'.url)]) ]_vars

\* C13: the add-bookmark dialog opens bound to the address of its message; Ok
\* closes it and sends one add-bookmark request with that address and the two
\* fields as typed, empty when left blank (the send is fatal when the backend
\* is gone); Cancel closes it and sends nothing.  The Bookmarks menu changes
\* only when a bookmark-added message is applied.
C13_AddBookmarkSubmit ==
    /\ [][ (applied' # applied /\ last_msg'.type = "ShowAddBookmarkDialog") =>
             layers' = Append(layers, [kind |-> "add_bookmark", url |-> last_msg'.url,
                                       prefill |-> <<>>]) ]_vars
    /\ [][ EventStep("add_bookmark_ok") =>
             /\ TopIs("add_bookmark")
             /\ layers' = Closed
             /\ arrived' = arrived
             /\ IF controller_alive
                THEN /\ controller_rx' = Append(controller_rx,
                            [type |-> "AddBookmark", url |-> layers[Len(layers)].url,
                             ctype |-> "None", text |-> last_event'.text[1],
                             tags |-> last_event'.text[2]])
                     /\ ~panicked'
                ELSE panicked' /\ controller_rx' = controller_rx ]_vars
    /\ [][ (EventStep("dismiss") /\ TopIs("add_bookmark")) =>
             /\ layers' = Closed
             /\ controller_rx' = controller_rx
             /\ arrived' = arrived
             /\ ~panicked' ]_vars
    /\ [][ bookmarks_menu' # bookmarks_menu =>
             /\ applied' # applied /\ last_msg'.type = "AddToBookmarkMenu"
             /\ Len(bookmarks_menu') = Len(bookmarks_menu) + 1 ]_vars

\* a dialog left blank has been submitted for UrlB: the request holds UrlB and
\* two empty strings, and the menu is still as it was built
C13_Witness ==
    /\ last_event = Event("add_bookmark_ok", 0, << <<>>, <<>> >>)
    /\ controller_rx # <<>>
    /\ controller_rx[Len(controller_rx)] = AddBookmark(UrlB, <<>>, <<>>)
    /\ bookmarks_menu = BookmarksStatic
    /\ layers = <<>>

\* the dialogs a message of the pump opens
DialogKinds == {"url", "query", "save_as", "add_bookmark"}

\* C14: at most one dialog of a kind is open: a dialog-open message applied
\* while a dialog of its kind is open replaces that dialog.
C14_OneDialogPerKind ==
    \A kind \in DialogKinds :
        Cardinality({i \in 1..Len(layers) : layers[i].kind = kind}) <= 1

\* the input events whose callbacks send a request: navigate-back,
\* request-save-as-dialog, request-add-bookmark-dialog, clear-history, save-as
\* (with a name) and add-bookmark
SendingEvent(e) ==
    \/ e.kind \in {"back_key", "save_key", "add_bookmark_leaf", "clear_history_ok",
                   "add_bookmark_ok"}
    \/ e.kind = "save_as_submit" /\ e.text # <<>>

\* C15: with the backend gone, every send of a request is fatal: the sends of
\* the callbacks (navigate-back, the two dialog requests, clear-history,
\* save-as, add-bookmark) and those of the handlers (fetch, submit-query,
\* fetch-binary when the download directory is known).
C15_SendFailureIsFatal ==
    /\ [][ (~controller_alive /\ renders' = renders + 1 /\ SendingEvent(last_event'))
             => panicked' ]_vars
    /\ [][ (~controller_alive /\ applied' # applied
            /\ last_msg'.type \in {"OpenUrl", "OpenQueryUrl"})
             => \/ panicked'
                \/ /\ last_msg'.ctype = "Binary"
                   /\ message' = <<"Could not find download dir">> ]_vars

---------------------------------------------------------------------------

\* the listing applied last is that of the payload c
LastListingIs(c) ==
    LastWhere(applied, IsListing) = <<ListingMsg(c)>>

\* the lines of c but the terminator lines
EntryLines(c) == SelectSeq(c.lines, LAMBDA l : l # Terminator)

HasTitle(c) == c.lines[1] # <<>> /\ c.lines[1][1] = "/"

\* C17 as claimed: a first line that begins with '/' is taken as the title and
\* is not an entry of the listing.
C17_TitleLineIsDropped ==
    \A c \in ListingCases :
        (LastListingIs(c) /\ HasTitle(c)) =>
            /\ content_title = c.lines[1]
            /\ Len(content_items) = Len(EntryLines(c)) - 1
            /\ \A i \in 1..Len(content_items) :
                 content_items[i].entry = GopherMapEntryParse(EntryLines(c)[i + 1])

\* C17 as amended: a first line that begins with '/' is taken as the title and
\* is also the first entry of the listing, before the entries of the other
\* lines.
C17_TitleLineIsAlsoEntry ==
    \A c \in ListingCases :
        (LastListingIs(c) /\ HasTitle(c)) =>
            /\ content_title = c.lines[1]
            /\ Len(content_items) = Len(EntryLines(c))
            /\ content_items[1].entry = GopherMapEntryParse(c.lines[1])
            /\ \A i \in 2..Len(content_items) :
                 content_items[i].entry = GopherMapEntryParse(EntryLines(c)[i])

\* the listing "/t", a directory, "." is shown: the title is "/t", and "/t" is
\* the first of two entries
C17_Witness ==
    /\ LastListingIs([lines |-> <<LineTitle, LineDirA, Terminator>>, final_break |-> TRUE])
    /\ content_title = <<"/", "t">>
    /\ Len(content_items) = 2
    /\ content_items[1].label = <<"       ", "/", "t">>
    /\ content_items[2].entry = GopherMapEntry("Dir", <<"a">>, UrlA)

\* C18: the title is the first line of the listing applied last if that line
\* begins with '/', and is empty otherwise, whatever the title was before.
C18_TitleFollowsListing ==
    \A c \in ListingCases :
        LastListingIs(c) =>
            content_title = IF HasTitle(c) THEN c.lines[1] ELSE <<>>

\* C19: the entries after a content-ready(listing) are a function of its
\* payload: they do not depend on the entries before, and the same payload
\* applied again leaves them as they are.
C19_ListingReplacedWholesale ==
    /\ [][ (applied' # applied /\ IsListing(last_msg')) =>
             LET gophermap == GophermapOf(last_msg'.content)
             IN /\ content_items' = [i \in 1..Len(gophermap) |-> ContentItem(gophermap[i])]
                /\ LastWhere(applied, IsListing) = <<last_msg'>>
                     => content_items' = content_items ]_vars
    /\ [](\A c, d \in ListingCases :
            (LastListingIs(c) /\ PayloadOfLines(c) = PayloadOfLines(d)) => c = d)

\* the same payload has been applied twice in a row after another one, and
\* the listing has the two entries of the payload
C19_Witness ==
    /\ Len(applied) >= 3
    /\ applied[Len(applied)] = applied[Len(applied) - 1]
    /\ applied[Len(applied) - 1] # applied[Len(applied) - 2]
    /\ Len(applied[Len(applied) - 2].content) > 2
    /\ LastListingIs([lines |-> <<LineFileB, Terminator, LineDirA>>, final_break |-> FALSE])
    /\ Len(content_items) = 2

---------------------------------------------------------------------------

\* C20: one of the two panes is on screen at any time; a content-ready(text)
\* puts the text pane on screen and leaves the entries of the listing pane as
\* they are; a content-ready(listing) and an open-request leave the lines of
\* the text pane as they are, and an open-request those of the listing too.
C20_PanesKeepTheirContent ==
    /\ [](active_view \in {"content", "text"})
    /\ [][ (applied' # applied /\ last_msg'.type = "ShowContent" /\ last_msg'.ctype = "Text")
             => /\ content_items' = content_items
                /\ content_title' = content_title
                /\ active_view' = "text" ]_vars
    /\ [][ (applied' # applied /\ IsListing(last_msg'))
             => text_items' = text_items ]_vars
    /\ [][ (applied' # applied /\ last_msg'.type = "OpenUrl")
             => /\ text_items' = text_items
                /\ content_items' = content_items
                /\ active_view' = "content" ]_vars

\* a text was put on screen and then a listing has been applied: the text
\* pane is still on screen with its line, the listing pane has the new entry
C20_Witness ==
    /\ active_view = "text"
    /\ text_items = << <<"  ", "i", "b">> >>
    /\ Len(content_items) = 1
    /\ Len(applied) >= 3
    /\ IsListing(applied[Len(applied)])
    /\ applied[Len(applied) - 1].ctype = "Text"

---------------------------------------------------------------------------

\* the address the backend has reported under a title
AddressTitled(t) == (CHOOSE e \in MenuEntries : e.title = t).url

\* an address with its default port left out
WithoutDefaultPort(u) == [u EXCEPT !.port = IF @ = <<"70">> THEN <<>> ELSE @]

\* the leaf the menus hold for an entry reported with a title and an address
LeafOf(m) == [kind |-> "leaf", label |-> m.text, cb |-> "open_url", url |-> m.url]

\* C21: a dynamic item of the History or Bookmarks menu, when activated, sends
\* one open message with the address that was added under the item's title,
\* wherever insertions and evictions have moved the item, and applying that
\* message requests that address (its default port written or not); an entry
\* added is a new first item whether or not the menu holds its address already
\* (at most the oldest History item is dropped for it), and adding a bookmark
\* never removes one.
C21_MenuItemOpensItsOwnAddress ==
    /\ [][ EventStep("menu_leaf") =>
             LET tree == IF last_event'.text[1] = "History" THEN history_menu ELSE bookmarks_menu
                 i    == last_event'.index
             IN /\ i \in 4..Len(tree)
                /\ Tail(last_event'.text) = tree[i].label
                /\ Sent = <<[type |-> "OpenURL", url |-> NoUrl,
                             text |-> UrlToString(AddressTitled(tree[i].label)),
                             content |-> <<>>, ctype |-> "None"]>>
                /\ <<controller_rx, menu_vars>>' = <<controller_rx, menu_vars>> ]_vars
    /\ [][ (applied' # applied /\ last_msg'.type = "OpenURL") =>
             \E e \in MenuEntries :
                /\ last_msg'.text = UrlToString(e.url)
                /\ Len(controller_rx') = Len(controller_rx) + 1
                /\ controller_rx'[Len(controller_rx')].type = "FetchUrl"
                /\ WithoutDefaultPort(controller_rx'[Len(controller_rx')].url)
                      = WithoutDefaultPort(e.url) ]_vars
    /\ [][ (applied' # applied /\ last_msg'.type = "AddToBookmarkMenu") =>
             Dynamic(bookmarks_menu') = <<LeafOf(last_msg')>> \o Dynamic(bookmarks_menu) ]_vars
    /\ [][ (applied' # applied /\ last_msg'.type = "AddToHistoryMenu") =>
             \/ Dynamic(history_menu') = <<LeafOf(last_msg')>> \o Dynamic(history_menu)
             \/ /\ Len(Dynamic(history_menu)) > HISTORY_LEN
                /\ Dynamic(history_menu') = <<LeafOf(last_msg')>>
                      \o SubSeq(Dynamic(history_menu), 1, Len(Dynamic(history_menu)) - 1) ]_vars
    /\ [][ bookmarks_menu' # bookmarks_menu =>
             /\ Len(bookmarks_menu') = Len(bookmarks_menu) + 1
             /\ Tail(Dynamic(bookmarks_menu')) = Dynamic(bookmarks_menu) ]_vars

\* the History menu has evicted entries and its four newest items are "B";
\* its oldest item, "A", was activated and the address of A has been
\* requested; the Bookmarks menu holds more than a dozen items, the two
\* newest of them equal
C21_Witness ==
    /\ last_event = Event("menu_leaf", HISTORY_LEN + 4, <<"History", "A">>)
    /\ Len(history_menu) = HISTORY_LEN + 4
    /\ \A i \in 4..7 : history_menu[i].label = <<"B">>
    /\ controller_rx # <<>>
    /\ WithoutDefaultPort(controller_rx[Len(controller_rx)].url) = WithoutDefaultPort(UrlA)
    /\ Len(Dynamic(bookmarks_menu)) > MaxBookmarks
    /\ bookmarks_menu[4] = bookmarks_menu[5]

---------------------------------------------------------------------------

\* the step applies an open-request for binary content
BinaryOpenStep ==
    applied' # applied /\ last_msg'.type = "OpenUrl" /\ last_msg'.ctype = "Binary"

\* the error is reported and nothing else is done
DownloadDirUnknown ==
    /\ message' = <<"Could not find download dir">>
    /\ ~panicked'
    /\ <<controller_rx, menu_vars, view_vars>>' = <<controller_rx, menu_vars, view_vars>>

\* one fetch-binary(address, directory/last-path-segment) request is sent
DownloadDirKnown ==
    /\ Len(last_msg'.url.path) > 0
    /\ \E dir \in { <<"/home/user">> } :
          controller_rx' = Append(controller_rx,
              [type |-> "FetchBinaryUrl", url |-> last_msg'.url, ctype |-> "Binary",
               text |-> dir \o <<"/">> \o last_msg'.url.path[Len(last_msg'.url.path)]])
    /\ ~panicked'
    /\ <<message, menu_vars, view_vars>>' = <<message, menu_vars, view_vars>>

\* C22: applying an open-request for binary content either finds no download
\* directory, reports it in the status bar and does nothing else (no request,
\* panes and menus as they were), or sends one fetch-binary request for the
\* address to the directory and the last path segment.
C22_BinaryOpenReportsOrFetches ==
    [][ BinaryOpenStep => (DownloadDirUnknown \/ DownloadDirKnown) ]_vars

---------------------------------------------------------------------------

\* the step is the call of Settings::new, with a config dir it can name
SettingsNewStep ==
    settings.state = "none" /\ settings'.state # "none" /\ config_fs.dir # "not_utf8"

\* C23: Settings::new returns a Settings value whatever the config file is:
\* with no config file the defaults of the download path, the home address
\* and the debug flag are its values; with a config file that is not read a
\* warning is logged and the defaults are its values.
C23_ConfigFileIsNeverFatal ==
    [][ SettingsNewStep =>
          /\ settings'.state = "ok"
          /\ config_fs.file.kind = "absent" =>
                settings'.config = [download_path |-> [kind |-> "string", v |-> <<"Downloads">>],
                                    homepage |-> [kind |-> "string",
                                                  v |-> <<"gopher", ":", "/", "/", "jan.bio", ":",
                                                          "70", "/", "0", "/", "ncgopher", "/">>],
                                    debug |-> [kind |-> "bool", v |-> <<"false">>]]
          /\ config_fs.file.kind = "unreadable" =>
                /\ Len(warnings') > Len(warnings)
                /\ settings'.config = Defaults ]_vars

---------------------------------------------------------------------------

\* the step applies a message of the type
Applies(type) == applied' # applied /\ last_msg'.type = type

\* C24: a content-ready(listing) refills the listing pane and leaves the pane
\* on screen as it is, like a submit-query and the key of navigate-back; the
\* pane on screen changes only when an open-request for a listing or a text,
\* or an open-by-URL-string, is applied (to the listing pane) and when a
\* content-ready(text) is applied (to the text pane), and these always put
\* their pane on screen.
C24_ListingLeavesPaneOnScreen ==
    /\ [][ (applied' # applied /\ IsListing(last_msg')) =>
             /\ active_view' = active_view
             /\ LET gophermap == GophermapOf(last_msg'.content)
                IN content_items' = [i \in 1..Len(gophermap) |-> ContentItem(gophermap[i])] ]_vars
    /\ [][ Applies("OpenQueryUrl") => active_view' = active_view ]_vars
    /\ [][ EventStep("back_key") =>
             /\ active_view' = active_view
             /\ controller_alive =>
                   controller_rx' = Append(controller_rx,
                       [type |-> "NavigateBack", url |-> NoUrl, ctype |-> "None", text |-> <<>>]) ]_vars
    /\ [][ active_view' # active_view =>
             \/ Applies("OpenUrl") /\ last_msg'.ctype # "Binary" /\ active_view' = "content"
             \/ Applies("OpenURL") /\ active_view' = "content"
             \/ Applies("ShowContent") /\ last_msg'.ctype = "Text" /\ active_view' = "text" ]_vars
    /\ [][ (Applies("ShowContent") /\ last_msg'.ctype = "Text") => active_view' = "text" ]_vars
    /\ [][ (Applies("OpenUrl") /\ last_msg'.ctype # "Binary") => active_view' = "content" ]_vars

\* a text is on screen, navigate-back was requested and its result, the
\* listing of UrlA, has been applied: the text pane is still on screen with
\* its text, the listing pane holds the new entry and the status bar the
\* address of the listing
C24_Witness ==
    /\ active_view = "text"
    /\ text_items = << <<"  ", "i", "e">> >>
    /\ controller_rx # <<>> /\ controller_rx[Len(controller_rx)].type = "NavigateBack"
    /\ applied # <<>> /\ applied[Len(applied)] = ShowContent(UrlA, PayloadA, "Gophermap")
    /\ content_items = <<ContentItem(GopherMapEntry("Dir", <<"a">>, UrlA))>>
    /\ message = UrlToString(UrlA)

---------------------------------------------------------------------------

\* the step is a send of the backend: the queue grows and nothing else changes
BackendStep ==
    /\ arrived' # arrived
    /\ <<running, controller_rx, controller_alive, panicked, message, menu_vars,
         view_vars, pump_vars, applied, last_msg, last_event>>'
         = <<running, controller_rx, controller_alive, panicked, message, menu_vars,
             view_vars, pump_vars, applied, last_msg, last_event>>

---------------------------------------------------------------------------

\* the requests the step has sent to the backend
NewRequests == SubSeq(controller_rx', Len(controller_rx) + 1, Len(controller_rx'))

\* the step sends nothing, or that one request
SendsNothing == controller_rx' = controller_rx
SendsOnly(req) == controller_rx' = Append(controller_rx, req)

\* the handler has panicked before it sent anything
PanicsUnsent == panicked' /\ SendsNothing

\* Url::parse accepts the string open_gopher_url_string makes of the text
Parsable(text) == \A res \in UrlParse(NormalizeUrlString(text)) : res.ok

\* the inbound messages that ask for a fetch
IsOpen(m) ==
    \/ m.type = "OpenUrl" /\ m.ctype # "Binary"
    \/ m.type = "OpenQueryUrl"
    \/ m.type = "OpenURL" /\ Parsable(m.text)

IsFetch(req) == req.type = "FetchUrl"

\* what the application of message m sends, `unless` being what may happen
\* instead of the send
RequestsOf(m, unless) ==
    CASE m.type = "OpenUrl" /\ m.ctype # "Binary" ->
            SendsOnly(FetchUrl(m.url, m.ctype, <<>>)) \/ unless
      [] m.type = "OpenQueryUrl" ->
            SendsOnly(FetchUrl(m.url, "Gophermap", m.text)) \/ unless
      [] m.type = "OpenURL" ->
            \E res \in UrlParse(NormalizeUrlString(m.text)) :
                IF res.ok
                THEN SendsOnly(FetchUrl(res.url, "Gophermap", <<>>)) \/ unless
                ELSE SendsNothing
      [] m.type = "OpenUrl" /\ m.ctype = "Binary" ->
            \/ SendsNothing /\ message' = <<"Could not find download dir">>
            \/ /\ Len(m.url.path) > 0
               /\ SendsOnly(FetchBinaryUrl(m.url, <<"/home/user", "/">> \o m.url.path[Len(m.url.path)]))
            \/ unless
      [] OTHER -> SendsNothing

---------------------------------------------------------------------------

\* the step applies an open-by-URL-string message
OpenStringStep == applied' # applied /\ last_msg'.type = "OpenURL"

\* the render step fires the callback of a History or Bookmarks item
MenuItemStep == renders' = renders + 1 /\ last_event'.kind = "menu_leaf"

---------------------------------------------------------------------------

\* tree2 is tree1 with one item put in front of its dynamic items, the
\* oldest of which may have been dropped
NewestFirst(tree1, tree2) ==
    /\ Len(tree2) > 3
    /\ tree2[4].kind = "leaf" /\ tree2[4].cb = "open_url"
    /\ \E n \in {Len(tree1) - 3, Len(tree1) - 4} :
          /\ n >= 0
          /\ SubSeq(tree2, 5, Len(tree2)) = SubSeq(tree1, 4, 3 + n)

\* neither the panes nor the dialogs nor the status text nor the requests
\* sent change
MenusOnly ==
    <<view_vars, message, controller_rx, panicked>>' = <<view_vars, message, controller_rx, panicked>>

\* C28: the History and the Bookmarks menu always begin with their three
\* static items.  A step that changes the History menu empties its dynamic
\* items or puts one item in front of them, leaves the Bookmarks menu as it
\* is and changes neither panes, dialogs nor status text; a step that changes
\* the Bookmarks menu puts one item in front of its dynamic items, leaves the
\* History menu as it is and changes neither panes, dialogs nor status text.
\* The three menu messages change nothing but the menu they name.
C28_StaticMenuItemsStay ==
    /\ [](/\ Len(history_menu) >= 3 /\ SubSeq(history_menu, 1, 3) = HistoryStatic
          /\ Len(bookmarks_menu) >= 3 /\ SubSeq(bookmarks_menu, 1, 3) = BookmarksStatic)
    /\ [][ history_menu' # history_menu =>
             /\ history_menu' = HistoryStatic \/ NewestFirst(history_menu, history_menu')
             /\ bookmarks_menu' = bookmarks_menu
             /\ MenusOnly ]_vars
    /\ [][ bookmarks_menu' # bookmarks_menu =>
             /\ NewestFirst(bookmarks_menu, bookmarks_menu')
             /\ Len(bookmarks_menu') = Len(bookmarks_menu) + 1
             /\ history_menu' = history_menu
             /\ MenusOnly ]_vars
    /\ [][ (applied' # applied /\ last_msg'.type \in {"AddToHistoryMenu", "ClearHistoryMenu"})
             => (bookmarks_menu' = bookmarks_menu /\ MenusOnly) ]_vars
    /\ [][ (applied' # applied /\ last_msg'.type = "AddToBookmarkMenu")
             => (history_menu' = history_menu /\ MenusOnly) ]_vars

\* with bookmarks and history loaded, an item has been opened (the status
\* text says so) and the history has been cleared: the History menu is its
\* three static items, the Bookmarks menu has kept its dynamic items, the
\* status text and the pane on screen are those of the open
C28_Witness ==
    /\ last_msg = ClearHistoryMenu
    /\ applied # <<>> /\ applied[Len(applied)] = ClearHistoryMenu
    /\ history_menu = HistoryStatic
    /\ Len(Dynamic(bookmarks_menu)) >= 2
    /\ message = <<"Loading ...">>
    /\ controller_rx # <<>>

====
